---- MODULE Spec2Model ----
(***************************************************************************)
(* Model of the packing engine of bablusheed                                *)
(* (src-tauri/src/commands/pack.rs): import extraction, path resolution,   *)
(* dependency ordering, documentation/code split, component grouping and   *)
(* token-balanced distribution into packs.                                 *)
(*                                                                         *)
(* Strings are sequences of one-character strings, so that the text        *)
(* functions of the source (normalize_path, file_basename, the import      *)
(* scanner, the resolver) are computed character by character as the code  *)
(* computes them.  File indices are 0-based as in the source; a vector of  *)
(* the source is a TLA+ sequence v with the source's v[i] at v[i + 1], and *)
(* per-index vectors (indegree, edges, token_counts) are functions on      *)
(* 0..n-1.                                                                 *)
(***************************************************************************)
EXTENDS Integers, Sequences, FiniteSets, TLC

VARIABLES
    platform,   \* build target of the binary: "unix" or "windows"
    hash_order, \* iteration order of the HashSets built in the step under way
    phase,      \* position of the call under way
    files,      \* PackRequest.files, or the files given to compute_dependency_order
    num_packs,  \* PackRequest.num_packs
    run,        \* pack_files: its local values and its response
    kahn,       \* compute_dependency_order alone: its graph and loop state
    dist,       \* distribute_files alone: its arguments and its result
    unit,       \* a helper function called alone: its arguments and its result
    workers,    \* the pack_files invocations in flight, one per runtime worker
    log,        \* the requests answered so far with the responses given
    allow_list  \* FS_SCOPE_STATE of commands/fs.rs: project and export roots

vars == <<platform, hash_order, phase, files, num_packs, run, kahn, dist,
          unit, workers, log, allow_list>>

----------------------------------------------------------------------------
(* Characters and strings                                                  *)

\* Byte value of an ASCII character (String comparison in Rust is bytewise).
CharCode ==
    "\t" :> 9 @@ "\n" :> 10 @@ "\r" :> 13 @@ " " :> 32 @@ "!" :> 33 @@ "\"" :> 34 @@ "#" :> 35 @@
    "$" :> 36 @@ "%" :> 37 @@ "&" :> 38 @@ "'" :> 39 @@ "(" :> 40 @@ ")" :> 41 @@
    "*" :> 42 @@ "+" :> 43 @@ "," :> 44 @@ "-" :> 45 @@ "." :> 46 @@ "/" :> 47 @@
    "0" :> 48 @@ "1" :> 49 @@ "2" :> 50 @@ "3" :> 51 @@ "4" :> 52 @@ "5" :> 53 @@
    "6" :> 54 @@ "7" :> 55 @@ "8" :> 56 @@ "9" :> 57 @@ ":" :> 58 @@ ";" :> 59 @@
    "<" :> 60 @@ "=" :> 61 @@ ">" :> 62 @@ "?" :> 63 @@ "@" :> 64 @@ "A" :> 65 @@
    "B" :> 66 @@ "C" :> 67 @@ "D" :> 68 @@ "E" :> 69 @@ "F" :> 70 @@ "G" :> 71 @@
    "H" :> 72 @@ "I" :> 73 @@ "J" :> 74 @@ "K" :> 75 @@ "L" :> 76 @@ "M" :> 77 @@
    "N" :> 78 @@ "O" :> 79 @@ "P" :> 80 @@ "Q" :> 81 @@ "R" :> 82 @@ "S" :> 83 @@
    "T" :> 84 @@ "U" :> 85 @@ "V" :> 86 @@ "W" :> 87 @@ "X" :> 88 @@ "Y" :> 89 @@
    "Z" :> 90 @@ "[" :> 91 @@ "\\" :> 92 @@ "]" :> 93 @@ "^" :> 94 @@ "_" :> 95 @@
    "a" :> 97 @@ "b" :> 98 @@ "c" :> 99 @@ "d" :> 100 @@ "e" :> 101 @@
    "f" :> 102 @@ "g" :> 103 @@ "h" :> 104 @@ "i" :> 105 @@ "j" :> 106 @@ "k" :> 107 @@
    "l" :> 108 @@ "m" :> 109 @@ "n" :> 110 @@ "o" :> 111 @@ "p" :> 112 @@ "q" :> 113 @@
    "r" :> 114 @@ "s" :> 115 @@ "t" :> 116 @@ "u" :> 117 @@ "v" :> 118 @@ "w" :> 119 @@
    "x" :> 120 @@ "y" :> 121 @@ "z" :> 122 @@ "{" :> 123 @@ "|" :> 124 @@ "}" :> 125 @@
    "~" :> 126

\* u8::to_ascii_lowercase on the upper-case letters (every other byte is kept).
UpperToLower ==
    "A" :> "a" @@ "B" :> "b" @@ "C" :> "c" @@ "D" :> "d" @@ "E" :> "e" @@ "F" :> "f" @@
    "G" :> "g" @@ "H" :> "h" @@ "I" :> "i" @@ "J" :> "j" @@ "K" :> "k" @@ "L" :> "l" @@
    "M" :> "m" @@ "N" :> "n" @@ "O" :> "o" @@ "P" :> "p" @@ "Q" :> "q" @@ "R" :> "r" @@
    "S" :> "s" @@ "T" :> "t" @@ "U" :> "u" @@ "V" :> "v" @@ "W" :> "w" @@ "X" :> "x" @@
    "Y" :> "y" @@ "Z" :> "z"

\* str::to_ascii_lowercase
to_ascii_lowercase(s) ==
    [i \in 1..Len(s) |-> IF s[i] \in DOMAIN UpperToLower THEN UpperToLower[s[i]] ELSE s[i]]

\* char::is_whitespace restricted to ASCII (what str::trim strips)
Whitespace == {" ", "\t", "\n", "\r"}

SetMin(S) == CHOOSE x \in S : \A y \in S : x <= y
SetMax(S) == CHOOSE x \in S : \A y \in S : x >= y

\* Ord for String: bytewise lexicographic, a proper prefix is smaller.
StrLess(a, b) ==
    LET m == IF Len(a) < Len(b) THEN Len(a) ELSE Len(b)
        diff == {i \in 1..m : a[i] # b[i]}
    IN  IF diff = {} THEN Len(a) < Len(b)
        ELSE LET i == SetMin(diff) IN CharCode[a[i]] < CharCode[b[i]]

\* str::starts_with
starts_with(s, p) == Len(s) >= Len(p) /\ SubSeq(s, 1, Len(p)) = p

\* str::contains
contains(s, p) == \E i \in 1..(Len(s) - Len(p) + 1) : SubSeq(s, i, i + Len(p) - 1) = p

\* str::strip_prefix: the rest after the prefix (used only where starts_with holds)
strip_prefix(s, p) == SubSeq(s, Len(p) + 1, Len(s))

\* str::split on any of the characters of seps: always at least one piece
RECURSIVE split(_, _)
split(s, seps) ==
    LET hits == {i \in 1..Len(s) : s[i] \in seps}
    IN  IF hits = {} THEN <<s>>
        ELSE LET i == SetMin(hits)
             IN  <<SubSeq(s, 1, i - 1)>> \o split(SubSeq(s, i + 1, Len(s)), seps)

\* [&str]::join
RECURSIVE join(_, _)
join(parts, sep) ==
    IF parts = <<>> THEN <<>>
    ELSE IF Len(parts) = 1 THEN parts[1]
    ELSE parts[1] \o sep \o join(Tail(parts), sep)

\* str::replace of one character by another
replace_char(s, from, to) == [i \in 1..Len(s) |-> IF s[i] = from THEN to ELSE s[i]]

\* str::trim
trim(s) ==
    LET keep == {i \in 1..Len(s) : s[i] \notin Whitespace}
    IN  IF keep = {} THEN <<>> ELSE SubSeq(s, SetMin(keep), SetMax(keep))

----------------------------------------------------------------------------
(* Paths                                                                   *)

\* The separators std::path::Path splits on: '/' on Unix, '/' and '\' on
\* Windows.  The repository is a desktop application built for both.
PathSeparators == IF platform = "windows" THEN {"/", "\\"} ELSE {"/"}

\* An Option<T> of the source is the set of its values: {} for None, {v} for
\* Some(v).
Some(v) == {v}
unwrap(opt) == CHOOSE v \in opt : TRUE

\* Path::file_name: the last component when it is a normal one.  Empty and
\* "." components are skipped; a path ending in ".." (or with no component)
\* has none.
LastNormal(comps) ==
    IF comps = <<>> THEN {}
    ELSE IF comps[Len(comps)] = <<".", ".">> THEN {}
    ELSE Some(comps[Len(comps)])

PathFileName(path) ==
    LastNormal(SelectSeq(split(path, PathSeparators), LAMBDA c : c # <<>> /\ c # <<".">>))

\* Path::extension: the part of file_name after its last '.', when there is
\* a '.' that is not the first character.
AfterLastDot(name) ==
    LET dots == {i \in 1..Len(name) : name[i] = "."}
    IN  IF dots = {} \/ SetMax(dots) = 1 THEN {}
        ELSE Some(SubSeq(name, SetMax(dots) + 1, Len(name)))

ExtensionOf(name) == IF name = {} THEN {} ELSE AfterLastDot(unwrap(name))

PathExtension(path) == ExtensionOf(PathFileName(path))

RECURSIVE NormalizeParts(_, _)
NormalizeParts(rest, parts) ==
    IF rest = <<>> THEN parts
    ELSE LET part == Head(rest)
         IN  NormalizeParts(Tail(rest),
                 IF part = <<>> \/ part = <<".">> THEN parts
                 ELSE IF part = <<".", ".">>
                      THEN (IF parts = <<>> THEN parts ELSE SubSeq(parts, 1, Len(parts) - 1))
                 ELSE Append(parts, part))

normalize_path(path) ==
    join(NormalizeParts(split(replace_char(path, "\\", "/"), {"/"}), <<>>), <<"/">>)

parent_dir(path) ==
    LET hits == {i \in 1..Len(path) : path[i] = "/"}
    IN  IF hits = {} THEN <<>> ELSE SubSeq(path, 1, SetMax(hits) - 1)

has_extension(path) == PathExtension(path) # {}

\* .and_then(|e| e.to_str()).unwrap_or("").to_ascii_lowercase()
LowerOrEmpty(ext) == IF ext = {} THEN <<>> ELSE to_ascii_lowercase(unwrap(ext))

path_extension(path) == LowerOrEmpty(PathExtension(path))

\* .and_then(|n| n.to_str()).unwrap_or(path).to_ascii_lowercase()
LowerOr(name, path) == to_ascii_lowercase(IF name = {} THEN path ELSE unwrap(name))

file_basename(path) == LowerOr(PathFileName(path), path)

is_doc_file(path) ==
    path_extension(path) \in { <<"m", "d">>, <<"m", "d", "x">>, <<"t", "x", "t">>,
                               <<"r", "s", "t">>, <<"a", "d", "o", "c">> }

\* The bucket of doc_priority
DocBucket(normalized, basename) ==
    IF starts_with(basename, <<"r", "e", "a", "d", "m", "e">>) THEN 0
    ELSE IF \/ starts_with(basename, <<"o", "v", "e", "r", "v", "i", "e", "w">>)
            \/ starts_with(basename, <<"a", "r", "c", "h", "i", "t", "e", "c", "t", "u", "r", "e">>)
            \/ starts_with(basename, <<"d", "e", "s", "i", "g", "n">>)
            \/ starts_with(basename, <<"s", "p", "e", "c">>)
            \/ starts_with(basename, <<"c", "o", "n", "t", "r", "i", "b", "u", "t", "i", "n", "g">>)
         THEN 1
    ELSE IF \/ starts_with(normalized, <<"d", "o", "c", "s", "/">>)
            \/ contains(normalized, <<"/", "d", "o", "c", "s", "/">>)
         THEN 2
    ELSE 3

DocKey(normalized, basename) == <<DocBucket(normalized, basename), normalized>>

\* doc_priority: the sort key (bucket, lower-case normalized path)
doc_priority(path) == DocKey(to_ascii_lowercase(normalize_path(path)), file_basename(path))

\* Ord for (u8, String)
DocKeyLess(k1, k2) == k1[1] < k2[1] \/ (k1[1] = k2[1] /\ StrLess(k1[2], k2[2]))
----------------------------------------------------------------------------
(* Import extraction                                                       *)

\* The inner loop of extract_quoted_segments: the position of the quote
\* closing a literal opened before position i, or 0 when the line ends
\* first.  A backslash skips the byte after it.
RECURSIVE ClosingQuote(_, _, _)
ClosingQuote(line, i, quote) ==
    IF i > Len(line) THEN 0
    ELSE IF line[i] = "\\" THEN ClosingQuote(line, i + 2, quote)
    ELSE IF line[i] = quote THEN i
    ELSE ClosingQuote(line, i + 1, quote)

\* The outer loop of extract_quoted_segments from position i on.  A literal
\* left open at the end of the line is dropped and ends the scan.
RECURSIVE QuotedFrom(_, _)
QuotedFrom(line, i) ==
    IF i > Len(line) THEN <<>>
    ELSE IF line[i] # "'" /\ line[i] # "\"" THEN QuotedFrom(line, i + 1)
    ELSE LET close == ClosingQuote(line, i + 1, line[i])
         IN  IF close = 0 THEN <<>>
             ELSE <<SubSeq(line, i + 1, close - 1)>> \o QuotedFrom(line, close + 1)

extract_quoted_segments(line) == QuotedFrom(line, 1)

Range(seq) == {seq[i] : i \in 1..Len(seq)}

StripCarriageReturn(l) ==
    IF l # <<>> /\ l[Len(l)] = "\r" THEN SubSeq(l, 1, Len(l) - 1) ELSE l

DropFinalEmpty(pieces) ==
    IF pieces[Len(pieces)] = <<>> THEN SubSeq(pieces, 1, Len(pieces) - 1) ELSE pieces

EachStripped(kept) == [i \in 1..Len(kept) |-> StripCarriageReturn(kept[i])]

\* str::lines: the pieces between line feeds, without a final empty piece,
\* each without a trailing carriage return.
lines(content) == EachStripped(DropFinalEmpty(split(content, {"\n"})))

\* str::split_once: the text before the first occurrence of pat, if any
BeforeFirst(s, pat) ==
    LET hits == {i \in 1..(Len(s) - Len(pat) + 1) : SubSeq(s, i, i + Len(pat) - 1) = pat}
    IN  IF hits = {} THEN {} ELSE Some(SubSeq(s, 1, SetMin(hits) - 1))

\* split_whitespace().next().unwrap_or("") of a trimmed string
FirstWord(t) ==
    LET ws == {i \in 1..Len(t) : t[i] \in Whitespace}
    IN  IF ws = {} THEN t ELSE SubSeq(t, 1, SetMin(ws) - 1)

FirstToken(s) == FirstWord(trim(s))

\* str::trim_end_matches(';')
RECURSIVE trim_end_semicolons(_)
trim_end_semicolons(s) ==
    IF s # <<>> /\ s[Len(s)] = ";" THEN trim_end_semicolons(SubSeq(s, 1, Len(s) - 1)) ELSE s


\* Faulty variant of QuotedSpecifiers: `import `, `export ` and `use ` are
\* looked for anywhere in the line, not at its start.
QuotedSpecifiers_marker_anywhere(line) ==
    IF \/ contains(line, <<"i", "m", "p", "o", "r", "t", " ">>)
       \/ contains(line, <<"e", "x", "p", "o", "r", "t", " ">>)
       \/ contains(line, <<" ", "f", "r", "o", "m", " ">>)
       \/ contains(line, <<"r", "e", "q", "u", "i", "r", "e", "(">>)
       \/ contains(line, <<"i", "m", "p", "o", "r", "t", "(">>)
       \/ contains(line, <<"u", "s", "e", " ">>)
    THEN {q \in Range(extract_quoted_segments(line)) : q # <<>>}
    ELSE {}

\* JS/TS/Rust/Go style quoted imports
QuotedSpecifiers(line) ==
    IF \/ starts_with(line, <<"i", "m", "p", "o", "r", "t", " ">>)
       \/ starts_with(line, <<"e", "x", "p", "o", "r", "t", " ">>)
       \/ contains(line, <<" ", "f", "r", "o", "m", " ">>)
       \/ contains(line, <<"r", "e", "q", "u", "i", "r", "e", "(">>)
       \/ contains(line, <<"i", "m", "p", "o", "r", "t", "(">>)
       \/ starts_with(line, <<"u", "s", "e", " ">>)
    THEN {q \in Range(extract_quoted_segments(line)) : q # <<>>}
    ELSE {}

DottedModule(before) ==
    IF before = {} THEN {} ELSE {replace_char(trim(unwrap(before)), ".", "/")} \ {<<>>}

\* Python: from foo.bar import baz
PyFromSpecifiers(line) ==
    IF starts_with(line, <<"f", "r", "o", "m", " ">>)
    THEN DottedModule(BeforeFirst(strip_prefix(line, <<"f", "r", "o", "m", " ">>), <<" ", "i", "m", "p", "o", "r", "t", " ">>))
    ELSE {}

ImportedModules(rest) ==
    IF \/ contains(rest, <<"\"">>) \/ contains(rest, <<"'">>)
       \/ contains(rest, <<" ", "f", "r", "o", "m", " ">>)
    THEN {}
    ELSE {replace_char(FirstToken(item), ".", "/") : item \in Range(split(rest, {","}))}
             \ {<<>>}

\* Python: import foo.bar, baz
PyImportSpecifiers(line) ==
    IF starts_with(line, <<"i", "m", "p", "o", "r", "t", " ">>)
    THEN ImportedModules(strip_prefix(line, <<"i", "m", "p", "o", "r", "t", " ">>))
    ELSE {}

RelativeModule(module) == IF module = <<>> THEN {} ELSE {<<".", "/">> \o module}

\* Rust: mod foo; / pub mod foo;
RustModSpecifiers(line) ==
    IF starts_with(line, <<"m", "o", "d", " ">>)
    THEN RelativeModule(trim(trim_end_semicolons(strip_prefix(line, <<"m", "o", "d", " ">>))))
    ELSE IF starts_with(line, <<"p", "u", "b", " ", "m", "o", "d", " ">>)
    THEN RelativeModule(trim(trim_end_semicolons(strip_prefix(line, <<"p", "u", "b", " ", "m", "o", "d", " ">>))))
    ELSE {}

\* The body of the loop of extract_module_specifiers for one trimmed line:
\* the specifiers the line adds to the set.
TrimmedLineSpecifiers(line) ==
    IF \/ line = <<>>
       \/ starts_with(line, <<"/", "/">>)
       \/ starts_with(line, <<"#">>)
       \/ starts_with(line, <<"*">>)
    THEN {}
    ELSE QuotedSpecifiers(line) \cup PyFromSpecifiers(line)
             \cup PyImportSpecifiers(line) \cup RustModSpecifiers(line)

\* Faulty variant of LineSpecifiers: `raw_line.trim()` is left out.
LineSpecifiers_untrimmed(raw_line) == TrimmedLineSpecifiers(raw_line)

LineSpecifiers(raw_line) == TrimmedLineSpecifiers(trim(raw_line))

\* extract_module_specifiers: the HashSet collected over the lines.  The
\* source returns it as a Vec in the set's iteration order.
extract_module_specifiers(content) ==
    UNION {LineSpecifiers(raw_line) : raw_line \in Range(lines(content))}

----------------------------------------------------------------------------
(* Path resolution                                                         *)

EXTENSIONS == << <<"t", "s">>, <<"t", "s", "x">>, <<"j", "s">>, <<"j", "s", "x">>, <<"p", "y">>,
                <<"r", "s">>, <<"g", "o">>, <<"j", "s", "o", "n">>, <<"m", "d">>, <<"m", "d", "x">> >>

RECURSIVE Flatten(_)
Flatten(seqs) == IF seqs = <<>> THEN <<>> ELSE Head(seqs) \o Flatten(Tail(seqs))


\* Faulty variant of ExpandBase: every `<base>.<ext>` is pushed before the
\* first `<base>/index.<ext>`.
ExpandBase_index_files_last(base) ==
    IF base = <<>> THEN <<>>
    ELSE IF has_extension(base) THEN <<base>>
    ELSE <<base>> \o [i \in 1..Len(EXTENSIONS) |-> base \o <<".">> \o EXTENSIONS[i]]
                  \o [i \in 1..Len(EXTENSIONS) |->
                         base \o <<"/", "i", "n", "d", "e", "x", ".">> \o EXTENSIONS[i]]

\* The expansion of one base candidate into the paths that are looked up
ExpandBase(base) ==
    IF base = <<>> THEN <<>>
    ELSE IF has_extension(base) THEN <<base>>
    ELSE <<base>> \o Flatten([i \in 1..Len(EXTENSIONS) |->
                        << base \o <<".">> \o EXTENSIONS[i],
                           base \o <<"/", "i", "n", "d", "e", "x", ".">> \o EXTENSIONS[i] >>])

ExpandAll(base_candidates) ==
    Flatten([i \in 1..Len(base_candidates) |-> ExpandBase(base_candidates[i])])

\* Faulty variant of BaseCandidates: the candidate under src/ is pushed after
\* the specifier taken as a path, not before it.
BaseCandidates_alias_last(specifier, current_path) ==
    (IF starts_with(specifier, <<".", "/">>) \/ starts_with(specifier, <<".", ".", "/">>)
     THEN << normalize_path(parent_dir(current_path) \o <<"/">> \o specifier) >>
     ELSE IF starts_with(specifier, <<"/">>)
     THEN << normalize_path(strip_prefix(specifier, <<"/">>)) >>
     ELSE << normalize_path(specifier) >>)
    \o
    (IF starts_with(specifier, <<"@", "/">>)
     THEN << normalize_path(<<"s", "r", "c", "/">> \o strip_prefix(specifier, <<"@", "/">>)) >>
     ELSE <<>>)

\* The base candidates of resolve_module_specifier, in the order pushed
BaseCandidates(specifier, current_path) ==
    (IF starts_with(specifier, <<"@", "/">>)
     THEN << normalize_path(<<"s", "r", "c", "/">> \o strip_prefix(specifier, <<"@", "/">>)) >>
     ELSE <<>>)
    \o
    (IF starts_with(specifier, <<".", "/">>) \/ starts_with(specifier, <<".", ".", "/">>)
     THEN << normalize_path(parent_dir(current_path) \o <<"/">> \o specifier) >>
     ELSE IF starts_with(specifier, <<"/">>)
     THEN << normalize_path(strip_prefix(specifier, <<"/">>)) >>
     ELSE << normalize_path(specifier) >>)

\* `for candidate in expanded`: the index of the first known candidate
FirstKnown(expanded, path_to_idx) ==
    LET known == {i \in 1..Len(expanded) : expanded[i] \in DOMAIN path_to_idx}
    IN  IF known = {} THEN {} ELSE Some(path_to_idx[expanded[SetMin(known)]])

\* resolve_module_specifier; path_to_idx is a function from normalized
\* paths to file indices.
resolve_module_specifier(specifier, current_path, path_to_idx) ==
    IF \/ specifier = <<>>
       \/ starts_with(specifier, <<"h", "t", "t", "p", ":", "/", "/">>)
       \/ starts_with(specifier, <<"h", "t", "t", "p", "s", ":", "/", "/">>)
       \/ starts_with(specifier, <<"n", "o", "d", "e", ":">>)
    THEN {}
    ELSE FirstKnown(ExpandAll(BaseCandidates(specifier, current_path)), path_to_idx)

----------------------------------------------------------------------------
(* Dependency graph and dependency order                                   *)

\* An enumeration of a set
RECURSIVE Enumerated(_)
Enumerated(S) ==
    IF S = {} THEN <<>>
    ELSE LET x == CHOOSE y \in S : TRUE IN <<x>> \o Enumerated(S \ {x})

Reverse(seq) == [i \in 1..Len(seq) |-> seq[Len(seq) + 1 - i]]

\* The orders in which a HashSet may hand out its elements: std's RandomState
\* seeds every set differently, so the order is not fixed by the contents.
HashOrders == {"forward", "backward"}

\* The iteration order of a HashSet in the step under way
SetToSeq(S) == IF hash_order = "forward" THEN Enumerated(S) ELSE Reverse(Enumerated(S))

\* slice::sort_by / sort_by_key: a stable sort; less[a, b] is the strict
\* order of the keys of a and b.  Each element is inserted after the
\* elements already placed that are not greater than it.
RECURSIVE StableSortInto(_, _, _)
StableSortInto(sorted, rest, less) ==
    IF rest = <<>> THEN sorted
    ELSE unwrap({StableSortInto(next, Tail(rest), less) :
                    next \in {SubSeq(sorted, 1, at - 1) \o <<Head(rest)>>
                                  \o SubSeq(sorted, at, Len(sorted)) :
                                  at \in {SetMin({i \in 1..Len(sorted) :
                                                      less[Head(rest), sorted[i]]}
                                                      \cup {Len(sorted) + 1})}}})

\* The sequence and the order are bound once, as the call binds them
StableSort(seq, less) ==
    unwrap({StableSortInto(<<>>, given, order) : given \in Some(seq), order \in Some(less)})

\* (0..n).collect()
IndexRange(n) == [i \in 1..n |-> i - 1]

FileIndices(fs) == 0..(Len(fs) - 1)

NormalizedPaths(fs) == [idx \in FileIndices(fs) |-> normalize_path(fs[idx + 1].path)]

\* The HashMap filled by inserting (path, idx) for idx = 0, 1, ...: a later
\* file with the same normalized path replaces the earlier one.
PathToIdx(normalized_paths) ==
    [p \in {normalized_paths[i] : i \in DOMAIN normalized_paths} |->
        SetMax({i \in DOMAIN normalized_paths : normalized_paths[i] = p})]

\* Faulty variant of AddEdge: the edge is stored at the dependent and the
\* dependency is counted as waiting, `edges[idx].insert(dep_idx)`.
AddEdge_reversed(g, idx, dep) ==
    IF dep # {} /\ unwrap(dep) # idx /\ unwrap(dep) \notin g.edges[idx]
    THEN [edges |-> [g.edges EXCEPT ![idx] = @ \cup {unwrap(dep)}],
          indegree |-> [g.indegree EXCEPT ![unwrap(dep)] = @ + 1]]
    ELSE g

\* Faulty variant of AddEdge: the indegree is incremented for every specifier
\* that resolves to another file, whether or not the edge was new.
AddEdge_counts_every_specifier(g, idx, dep) ==
    IF dep # {} /\ unwrap(dep) # idx
    THEN [edges |-> [g.edges EXCEPT ![unwrap(dep)] = @ \cup {idx}],
          indegree |-> [g.indegree EXCEPT ![idx] = @ + 1]]
    ELSE g

\* `if dep_idx != idx && edges[dep_idx].insert(idx) { indegree[idx] += 1; }`
\* for the resolution dep of one specifier of file idx; g is [edges, indegree].
AddEdge(g, idx, dep) ==
    IF dep # {} /\ unwrap(dep) # idx /\ idx \notin g.edges[unwrap(dep)]
    THEN [edges |-> [g.edges EXCEPT ![unwrap(dep)] = @ \cup {idx}],
          indegree |-> [g.indegree EXCEPT ![idx] = @ + 1]]
    ELSE g

\* `for spec in extract_module_specifiers(&file.content)` of file idx
RECURSIVE AddDependencies(_, _, _, _, _)
AddDependencies(g, idx, specs, current_path, path_to_idx) ==
    IF specs = <<>> THEN g
    ELSE AddDependencies(
             AddEdge(g, idx, resolve_module_specifier(Head(specs), current_path, path_to_idx)),
             idx, Tail(specs), current_path, path_to_idx)

\* `for (idx, file) in files.iter().enumerate()` from idx on
RECURSIVE GraphFrom(_, _, _, _, _)
GraphFrom(g, idx, fs, normalized_paths, path_to_idx) ==
    IF idx >= Len(fs) THEN g
    ELSE GraphFrom(AddDependencies(g, idx,
                                   SetToSeq(extract_module_specifiers(fs[idx + 1].content)),
                                   normalized_paths[idx], path_to_idx),
                   idx + 1, fs, normalized_paths, path_to_idx)

GraphResult(normalized_paths, g) ==
    [normalized_paths |-> normalized_paths, edges |-> g.edges, indegree |-> g.indegree]

\* path_to_idx is built once, before the loop over the files
GraphOfPaths(fs, normalized_paths) ==
    unwrap({GraphResult(normalized_paths,
                        GraphFrom([edges |-> [i \in FileIndices(fs) |-> {}],
                                   indegree |-> [i \in FileIndices(fs) |-> 0]],
                                  0, fs, normalized_paths, path_to_idx)) :
                path_to_idx \in Some(PathToIdx(normalized_paths))})

\* build_dependency_graph: edges[d] is the set of the dependents of d;
\* normalized_paths is built once.
build_dependency_graph(fs) ==
    unwrap({GraphOfPaths(fs, normalized_paths) :
                normalized_paths \in Some(NormalizedPaths(fs))})

\* Faulty variant of ReadyKeyLess: the index is compared before the path.
ReadyKeyLess_index_first(k1, k2) == k1[2] < k2[2] \/ (k1[2] = k2[2] /\ StrLess(k1[1], k2[1]))

\* Ord for (String, usize), the key of the ready set
ReadyKeyLess(k1, k2) == StrLess(k1[1], k2[1]) \/ (k1[1] = k2[1] /\ k1[2] < k2[2])

\* BTreeSet::pop_first: the smallest entry
first_ready(ready) == CHOOSE k \in ready : \A o \in ready \ {k} : ReadyKeyLess(k, o)

PathLess(normalized_paths) ==
    [a \in DOMAIN normalized_paths, b \in DOMAIN normalized_paths |->
        StrLess(normalized_paths[a], normalized_paths[b])]

saturating_sub(a, b) == IF a >= b THEN a - b ELSE 0

\* Faulty variant of KahnStart: every file is put into the ready set, whatever
\* its indegree.
KahnStart_all_ready(graph) ==
    [ready |-> {<<graph.normalized_paths[idx], idx>> : idx \in DOMAIN graph.indegree},
     order |-> <<>>,
     in_order |-> [idx \in DOMAIN graph.indegree |-> FALSE],
     indegree |-> graph.indegree]

\* The state of compute_dependency_order before its loop
KahnStart(graph) ==
    [ready |-> {<<graph.normalized_paths[idx], idx>> :
                    idx \in {i \in DOMAIN graph.indegree : graph.indegree[i] = 0}},
     order |-> <<>>,
     in_order |-> [idx \in DOMAIN graph.indegree |-> FALSE],
     indegree |-> graph.indegree]

\* `indegree[dependent] = indegree[dependent].saturating_sub(1);
\*  if indegree[dependent] == 0 { ready.insert(...) }`
Release(st, dependent, left, graph) ==
    [st EXCEPT !.indegree[dependent] = left,
               !.ready = IF left = 0
                         THEN @ \cup {<<graph.normalized_paths[dependent], dependent>>}
                         ELSE @]

\* `for dependent in dependents`
RECURSIVE ReleaseDependents(_, _, _)
ReleaseDependents(st, dependents, graph) ==
    IF dependents = <<>> THEN st
    ELSE ReleaseDependents(
             Release(st, Head(dependents), saturating_sub(st.indegree[Head(dependents)], 1), graph),
             Tail(dependents), graph)

\* `order.push(idx); in_order[idx] = true;` for the entry popped
Popped(st, first) ==
    [st EXCEPT !.ready = @ \ {first},
               !.order = Append(@, first[2]),
               !.in_order[first[2]] = TRUE]

\* `let mut dependents: Vec<usize> = edges[idx].iter().copied().collect();
\*  dependents.sort_by(|a, b| normalized_paths[*a].cmp(&normalized_paths[*b]));`
SortedDependents(idx, graph) ==
    StableSort(SetToSeq(graph.edges[idx]), PathLess(graph.normalized_paths))

\* Faulty variant of Emit: `in_order[idx] = true` is left out.
Emit_without_mark(st, first, graph) ==
    unwrap({ReleaseDependents([st EXCEPT !.ready = @ \ {first},
                                         !.order = Append(@, first[2])],
                              dependents, graph) :
                dependents \in Some(SortedDependents(first[2], graph))})

\* The body of the loop for the entry popped; dependents is bound once, as
\* the `let` binds it.
Emit(st, first, graph) ==
    unwrap({ReleaseDependents(Popped(st, first), dependents, graph) :
                dependents \in Some(SortedDependents(first[2], graph))})

\* BTreeSet::pop_first as an Option: the smallest entry, if there is one
pop_first(ready) == IF ready = {} THEN {} ELSE Some(first_ready(ready))

\* One iteration of `while let Some((_, idx)) = ready.pop_first()`
KahnStep(st, graph) == unwrap({Emit(st, first, graph) : first \in pop_first(st.ready)})

RECURSIVE KahnLoop(_, _)
KahnLoop(st, graph) == IF st.ready = {} THEN st ELSE KahnLoop(KahnStep(st, graph), graph)

\* Faulty variant of CycleFallback: `remaining.sort_by(...)` is left out.
CycleFallback_unsorted(st, graph) ==
    IF Len(st.order) < Cardinality(DOMAIN graph.indegree)
    THEN st.order \o SelectSeq(IndexRange(Cardinality(DOMAIN graph.indegree)),
                               LAMBDA idx : ~st.in_order[idx])
    ELSE st.order

\* Cycles fallback: the files the loop left, in stable path order
CycleFallback(st, graph) ==
    IF Len(st.order) < Cardinality(DOMAIN graph.indegree)
    THEN st.order \o StableSort(SelectSeq(IndexRange(Cardinality(DOMAIN graph.indegree)),
                                          LAMBDA idx : ~st.in_order[idx]),
                                PathLess(graph.normalized_paths))
    ELSE st.order

OrderOfGraph(graph) == CycleFallback(KahnLoop(KahnStart(graph), graph), graph)

compute_dependency_order(fs) ==
    IF Len(fs) <= 1 THEN IndexRange(Len(fs))
    ELSE OrderOfGraph(build_dependency_graph(fs))

\* `if dep_idx != idx { adjacency[idx].insert(dep_idx); adjacency[dep_idx].insert(idx); }`
AddPair(adjacency, idx, dep) ==
    IF dep # {} /\ unwrap(dep) # idx
    THEN [adjacency EXCEPT ![idx] = @ \cup dep, ![unwrap(dep)] = @ \cup {idx}]
    ELSE adjacency

RECURSIVE AddRelated(_, _, _, _, _)
AddRelated(adjacency, idx, specs, current_path, path_to_idx) ==
    IF specs = <<>> THEN adjacency
    ELSE AddRelated(
             AddPair(adjacency, idx,
                     resolve_module_specifier(Head(specs), current_path, path_to_idx)),
             idx, Tail(specs), current_path, path_to_idx)

RECURSIVE RelatedFrom(_, _, _, _, _)
RelatedFrom(adjacency, idx, fs, normalized_paths, path_to_idx) ==
    IF idx >= Len(fs) THEN adjacency
    ELSE RelatedFrom(AddRelated(adjacency, idx,
                                SetToSeq(extract_module_specifiers(fs[idx + 1].content)),
                                normalized_paths[idx], path_to_idx),
                     idx + 1, fs, normalized_paths, path_to_idx)

RelatedOfPaths(fs, normalized_paths) ==
    RelatedFrom([i \in FileIndices(fs) |-> {}], 0, fs, normalized_paths,
                PathToIdx(normalized_paths))

build_related_adjacency(fs) == RelatedOfPaths(fs, NormalizedPaths(fs))

----------------------------------------------------------------------------
(* Grouping, documentation split, distribution                             *)

\* `while let Some(node) = stack.pop()`: t is [stack, visited, component]
Visit(t, fresh) ==
    [stack |-> SubSeq(t.stack, 1, Len(t.stack) - 1) \o fresh,
     visited |-> t.visited \cup Range(fresh),
     component |-> t.component \o fresh]

\* Faulty variant of Traverse: the stack is not worked off, so a component is
\* its start file alone.
Traverse_not_run(t, allowed, related) == t

RECURSIVE Traverse(_, _, _)

\* Faulty variant of Traverse: the `!allowed.contains(&neighbor)` test is made
\* on the finished component instead of on each neighbor, so the traversal
\* passes through files that are not in code_order.
RECURSIVE Traverse_through_other_files(_, _, _)
Traverse_through_other_files(t, allowed, related) ==
    IF t.stack = <<>>
    THEN [stack |-> <<>>, visited |-> t.visited,
          component |-> SelectSeq(t.component, LAMBDA idx : idx \in allowed)]
    ELSE Traverse_through_other_files(
             Visit(t, SetToSeq({nb \in related[t.stack[Len(t.stack)]] : nb \notin t.visited})),
             allowed, related)

Traverse(t, allowed, related) ==
    IF t.stack = <<>> THEN t
    ELSE Traverse(Visit(t, SetToSeq({nb \in related[t.stack[Len(t.stack)]] :
                                        nb \in allowed /\ nb \notin t.visited})),
                  allowed, related)

\* The HashMap position: idx -> its place in code_order
PositionLess(order) ==
    [a \in Range(order), b \in Range(order) |->
        SetMax({pos \in 1..Len(order) : order[pos] = a})
            < SetMax({pos \in 1..Len(order) : order[pos] = b})]

\* `for &start in code_order`, from position i (1-based) on
RECURSIVE GroupFrom(_, _, _, _, _)
RECURSIVE AppendComponent(_, _, _, _, _)
\* Faulty variant of AppendComponent: `component.sort_by_key(...)` is left
\* out, so a component keeps the order in which the traversal met its files.
AppendComponent_unsorted(i, grouped, order, related, t) ==
    GroupFrom(i + 1, t.visited, grouped \o t.component, order, related)

AppendComponent(i, grouped, order, related, t) ==
    GroupFrom(i + 1, t.visited, grouped \o StableSort(t.component, PositionLess(order)),
              order, related)

GroupFrom(i, visited, grouped, order, related) ==
    IF i > Len(order) THEN grouped
    ELSE IF order[i] \in visited THEN GroupFrom(i + 1, visited, grouped, order, related)
    ELSE AppendComponent(i, grouped, order, related,
                         Traverse([stack |-> <<order[i]>>,
                                   visited |-> visited \cup {order[i]},
                                   component |-> <<order[i]>>],
                                  Range(order), related))

group_code_by_related_components(order, related) ==
    IF Len(order) <= 1 THEN order ELSE GroupFrom(1, {}, <<>>, order, related)

\* The comparison sort_by_key makes with doc_priority as the key
DocLess(docs, fs) ==
    [a \in Range(docs), b \in Range(docs) |->
        DocKeyLess(doc_priority(fs[a + 1].path), doc_priority(fs[b + 1].path))]


\* Faulty variant of SortDocs: `docs.sort_by_key(...)` is left out.
SortDocs_not_sorted(docs, fs) == docs

SortDocs(docs, fs) == StableSort(docs, DocLess(docs, fs))

split_docs_and_code(ordered_indices, fs) ==
    [docs |-> SortDocs(SelectSeq(ordered_indices, LAMBDA idx : is_doc_file(fs[idx + 1].path)), fs),
     code |-> SelectSeq(ordered_indices, LAMBDA idx : ~is_doc_file(fs[idx + 1].path))]

RECURSIVE SumTokens(_, _)
SumTokens(indices, token_counts) ==
    IF indices = <<>> THEN 0
    ELSE token_counts[Head(indices)] + SumTokens(Tail(indices), token_counts)

\* Faulty variant of DistributeStep: the bin is left only once the cumulative
\* weight has passed its boundary (`>` for `>=`).
DistributeStep_past_boundary(d, position, ordered_indices, pack_count, total_tokens, token_counts) ==
    LET idx == ordered_indices[position + 1]
        cumulative_tokens == d.cumulative_tokens + token_counts[idx]
        boundary == (total_tokens * (d.current_bin + 1) + pack_count - 1) \div pack_count
        remaining_files == Len(ordered_indices) - position - 1
        remaining_bins == pack_count - d.current_bin - 1
    IN  [bins |-> [d.bins EXCEPT ![d.current_bin + 1] = Append(@, idx)],
         cumulative_tokens |-> cumulative_tokens,
         current_bin |->
             IF d.current_bin >= pack_count - 1 THEN d.current_bin
             ELSE IF cumulative_tokens > boundary /\ remaining_files >= remaining_bins
                  THEN d.current_bin + 1
             ELSE d.current_bin]

\* Faulty variant of DistributeStep: the bin is left only while more files
\* than bins remain (`>` for `>=` in the remaining-files guard).
DistributeStep_more_files_than_bins(d, position, ordered_indices, pack_count, total_tokens, token_counts) ==
    LET idx == ordered_indices[position + 1]
        cumulative_tokens == d.cumulative_tokens + token_counts[idx]
        boundary == (total_tokens * (d.current_bin + 1) + pack_count - 1) \div pack_count
        remaining_files == Len(ordered_indices) - position - 1
        remaining_bins == pack_count - d.current_bin - 1
    IN  [bins |-> [d.bins EXCEPT ![d.current_bin + 1] = Append(@, idx)],
         cumulative_tokens |-> cumulative_tokens,
         current_bin |->
             IF d.current_bin >= pack_count - 1 THEN d.current_bin
             ELSE IF cumulative_tokens >= boundary /\ remaining_files > remaining_bins
                  THEN d.current_bin + 1
             ELSE d.current_bin]

\* Faulty variant of DistributeStep: the file is put at the front of the
\* current bin (`insert(0, idx)` for `push(idx)`).
DistributeStep_puts_in_front(d, position, ordered_indices, pack_count, total_tokens, token_counts) ==
    LET idx == ordered_indices[position + 1]
        cumulative_tokens == d.cumulative_tokens + token_counts[idx]
        boundary == (total_tokens * (d.current_bin + 1) + pack_count - 1) \div pack_count
        remaining_files == Len(ordered_indices) - position - 1
        remaining_bins == pack_count - d.current_bin - 1
    IN  [bins |-> [d.bins EXCEPT ![d.current_bin + 1] = <<idx>> \o @],
         cumulative_tokens |-> cumulative_tokens,
         current_bin |->
             IF d.current_bin >= pack_count - 1 THEN d.current_bin
             ELSE IF cumulative_tokens >= boundary /\ remaining_files >= remaining_bins
                  THEN d.current_bin + 1
             ELSE d.current_bin]

\* The body of the loop of distribute_files for the file at `position`
\* (0-based): d is [bins, cumulative_tokens, current_bin].
DistributeStep(d, position, ordered_indices, pack_count, total_tokens, token_counts) ==
    LET idx == ordered_indices[position + 1]
        cumulative_tokens == d.cumulative_tokens + token_counts[idx]
        boundary == (total_tokens * (d.current_bin + 1) + pack_count - 1) \div pack_count
        remaining_files == Len(ordered_indices) - position - 1
        remaining_bins == pack_count - d.current_bin - 1
    IN  [bins |-> [d.bins EXCEPT ![d.current_bin + 1] = Append(@, idx)],
         cumulative_tokens |-> cumulative_tokens,
         current_bin |->
             IF d.current_bin >= pack_count - 1 THEN d.current_bin
             ELSE IF cumulative_tokens >= boundary /\ remaining_files >= remaining_bins
                  THEN d.current_bin + 1
             ELSE d.current_bin]

RECURSIVE DistributeFrom(_, _, _, _, _, _)
DistributeFrom(d, position, ordered_indices, pack_count, total_tokens, token_counts) ==
    IF position >= Len(ordered_indices) THEN d
    ELSE DistributeFrom(DistributeStep(d, position, ordered_indices, pack_count,
                                       total_tokens, token_counts),
                        position + 1, ordered_indices, pack_count, total_tokens, token_counts)

Min2(a, b) == IF a < b THEN a ELSE b
Max2(a, b) == IF a > b THEN a ELSE b

\* The bins of distribute_files before `bins.retain(|bin| !bin.is_empty())`
FilledBins(ordered_indices, pack_count, token_counts) ==
    DistributeFrom([bins |-> [b \in 1..pack_count |-> <<>>],
                    cumulative_tokens |-> 0,
                    current_bin |-> 0],
                   0, ordered_indices, pack_count,
                   SumTokens(ordered_indices, token_counts), token_counts).bins

\* `let pack_count = num_packs.min(n).max(1);`
EffectivePackCount(packs, n) == Max2(Min2(packs, n), 1)

\* Faulty variant of distribute_files: the final
\* `bins.retain(|bin| !bin.is_empty())` is left out.
distribute_files_without_retain(ordered_indices, packs, token_counts) ==
    IF Len(ordered_indices) = 0 THEN <<>>
    ELSE IF EffectivePackCount(packs, Len(ordered_indices)) = 1 THEN <<ordered_indices>>
    ELSE FilledBins(ordered_indices,
                    EffectivePackCount(packs, Len(ordered_indices)), token_counts)

\* Faulty variant of distribute_files: the single-pack return lists the
\* positions 0..n-1 instead of cloning ordered_indices.
distribute_files_positions_for_indices(ordered_indices, packs, token_counts) ==
    IF Len(ordered_indices) = 0 THEN <<>>
    ELSE IF EffectivePackCount(packs, Len(ordered_indices)) = 1
    THEN <<IndexRange(Len(ordered_indices))>>
    ELSE SelectSeq(FilledBins(ordered_indices,
                              EffectivePackCount(packs, Len(ordered_indices)), token_counts),
                   LAMBDA bin : bin # <<>>)

\* Faulty variant of distribute_files: the `if n == 0 { return vec![]; }`
\* is left out.
distribute_files_without_empty_check(ordered_indices, packs, token_counts) ==
    IF EffectivePackCount(packs, Len(ordered_indices)) = 1 THEN <<ordered_indices>>
    ELSE SelectSeq(FilledBins(ordered_indices,
                              EffectivePackCount(packs, Len(ordered_indices)), token_counts),
                   LAMBDA bin : bin # <<>>)

distribute_files(ordered_indices, packs, token_counts) ==
    IF Len(ordered_indices) = 0 THEN <<>>
    ELSE IF EffectivePackCount(packs, Len(ordered_indices)) = 1 THEN <<ordered_indices>>
    ELSE SelectSeq(FilledBins(ordered_indices,
                              EffectivePackCount(packs, Len(ordered_indices)), token_counts),
                   LAMBDA bin : bin # <<>>)

\* usize::clamp
clamp(x, lo, hi) == IF x < lo THEN lo ELSE IF x > hi THEN hi ELSE x

\* Faulty variant of DocsPackCount: the clamp keeps the lower limit only, so
\* documentation may take every requested pack.
DocsPackCount_without_upper_limit(docs_tokens, total_tokens, packs) ==
    Max2((docs_tokens * packs + total_tokens \div 2) \div total_tokens, 1)


\* Faulty variant of DocsPackCount: the share is rounded down, `total_tokens / 2`
\* is not added before the division.
DocsPackCount_rounds_down(docs_tokens, total_tokens, packs) ==
    clamp((docs_tokens * packs) \div total_tokens, 1, packs - 1)

\* `let mut docs_pack_count = ...; docs_pack_count = docs_pack_count.clamp(1, num_packs - 1);`
DocsPackCount(docs_tokens, total_tokens, packs) ==
    clamp((docs_tokens * packs + total_tokens \div 2) \div total_tokens, 1, packs - 1)

\* Faulty variant of SplitBins: `bins.extend(distribute_files(code, ...))` is
\* left out.
SplitBins_without_code(docs, code, packs, token_counts, docs_pack_count) ==
    distribute_files(docs, docs_pack_count, token_counts)


\* Faulty variant of SplitBins: the code bins are put before the documentation
\* bins.
SplitBins_code_first(docs, code, packs, token_counts, docs_pack_count) ==
    distribute_files(code, packs - docs_pack_count, token_counts)
        \o distribute_files(docs, docs_pack_count, token_counts)

SplitBins(docs, code, packs, token_counts, docs_pack_count) ==
    distribute_files(docs, docs_pack_count, token_counts)
        \o distribute_files(code, packs - docs_pack_count, token_counts)

distribute_with_doc_strategy(docs, code, packs, token_counts) ==
    IF docs = <<>> \/ code = <<>> \/ packs <= 1
    THEN distribute_files(docs \o code, packs, token_counts)
    ELSE IF SumTokens(docs \o code, token_counts) = 0
    THEN distribute_files(docs \o code, packs, token_counts)
    ELSE SplitBins(docs, code, packs, token_counts,
                   DocsPackCount(SumTokens(docs, token_counts),
                                 SumTokens(docs \o code, token_counts), packs))

----------------------------------------------------------------------------
(* pack_files                                                              *)

estimate_tokens(content) == Max2(Len(content) \div 4, 1)

\* The counts are file-sized: their usize sums and the products of
\* distribute_files stay far below 2^64, so the arithmetic is exact.
TokenCounts(fs) ==
    [idx \in FileIndices(fs) |->
        IF fs[idx + 1].token_count = {} THEN estimate_tokens(fs[idx + 1].content)
        ELSE unwrap(fs[idx + 1].token_count)]

\* Faulty variant of PackItemOf: `pack_tokens = token_counts[file_idx]` in
\* place of `pack_tokens += token_counts[file_idx]`.
PackItemOf_last_file_tokens(i, bin, fs, token_counts) ==
    [index |-> i,
     estimated_tokens |-> IF bin = <<>> THEN 0 ELSE token_counts[bin[Len(bin)]],
     file_count |-> Len(bin),
     file_paths |-> [k \in 1..Len(bin) |-> fs[bin[k] + 1].path]]

\* The PackItem built from bin i (0-based position in bins).  The rendered
\* text of the pack (PackItem.content) is not part of the model.
PackItemOf(i, bin, fs, token_counts) ==
    [index |-> i,
     estimated_tokens |-> SumTokens(bin, token_counts),
     file_count |-> Len(bin),
     file_paths |-> [k \in 1..Len(bin) |-> fs[bin[k] + 1].path]]

PackItems(kept, bs, fs, token_counts) ==
    [k \in 1..Len(kept) |-> PackItemOf(kept[k], bs[kept[k] + 1], fs, token_counts)]

\* `for (i, bin) in bins.iter().enumerate()` with its `continue` on an
\* empty bin
PacksOf(bs, fs, token_counts) ==
    PackItems(SelectSeq(IndexRange(Len(bs)), LAMBDA i : bs[i + 1] # <<>>), bs, fs, token_counts)

\* The locals of pack_files in the order the function binds them, and the
\* response it returns.
PackBins(fs, token_counts, order, parts, related, grouped, bs) ==
    [dependency_order |-> order,
     docs_order |-> parts.docs,
     code_order_initial |-> parts.code,
     related_graph |-> related,
     code_order |-> grouped,
     bins |-> bs,
     response |-> [packs |-> PacksOf(bs, fs, token_counts),
                   total_tokens |-> SumTokens(IndexRange(Len(fs)), token_counts)]]

PackGrouped(fs, packs, token_counts, order, parts, related, grouped) ==
    PackBins(fs, token_counts, order, parts, related, grouped,
             distribute_with_doc_strategy(parts.docs, grouped, packs, token_counts))

PackSplit(fs, packs, token_counts, order, parts, related) ==
    PackGrouped(fs, packs, token_counts, order, parts, related,
                group_code_by_related_components(parts.code, related))

PackOrdered(fs, packs, token_counts, order) ==
    PackSplit(fs, packs, token_counts, order, split_docs_and_code(order, fs),
              build_related_adjacency(fs))

pack_files(fs, requested) ==
    IF fs = <<>>
    THEN [response |-> [packs |-> <<>>, total_tokens |-> 0]]
    ELSE PackOrdered(fs, Max2(requested, 1), TokenCounts(fs), compute_dependency_order(fs))

----------------------------------------------------------------------------
(* Inputs                                                                  *)

MaxFiles == 3        \* files of a pack_files request
MaxPacks == 3        \* requested pack count of a pack_files request
MaxOrderFiles == 3   \* files given to compute_dependency_order alone
MaxDistFiles == 4    \* indices given to distribute_files alone
MaxDistPacks == 4    \* pack count given to distribute_files alone
MaxCycleFiles == 4   \* files given to compute_dependency_order next to a cycle
MaxLines == 3        \* lines of a text given to extract_module_specifiers alone
MaxTokens == 3       \* token weights given to distribute_files alone are 0..MaxTokens

Platforms == {"unix", "windows"}

\* a.ts: import { b } from "./b";
File_a_imports_b ==
    [path |-> <<"a", ".", "t", "s">>,
     content |-> <<"i", "m", "p", "o", "r", "t", " ", "{", " ", "b", " ", "}", " ", "f", "r", "o", "m", " ", "\"", ".", "/", "b", "\"", ";", "\n">>,
     token_count |-> {}]

\* a.ts: import { a } from "./a";
File_a_imports_itself ==
    [path |-> <<"a", ".", "t", "s">>,
     content |-> <<"i", "m", "p", "o", "r", "t", " ", "{", " ", "a", " ", "}", " ", "f", "r", "o", "m", " ", "\"", ".", "/", "a", "\"", ";", "\n">>,
     token_count |-> Some(2)]

\* b.ts: export const b = 1;
File_b_plain ==
    [path |-> <<"b", ".", "t", "s">>,
     content |-> <<"e", "x", "p", "o", "r", "t", " ", "c", "o", "n", "s", "t", " ", "b", " ", "=", " ", "1", ";", "\n">>,
     token_count |-> Some(3)]

\* b.ts: import { c } from "./c";
File_b_imports_c ==
    [path |-> <<"b", ".", "t", "s">>,
     content |-> <<"i", "m", "p", "o", "r", "t", " ", "{", " ", "c", " ", "}", " ", "f", "r", "o", "m", " ", "\"", ".", "/", "c", "\"", ";", "\n">>,
     token_count |-> Some(1)]

\* b.ts: import { a } from "./a";
File_b_imports_a ==
    [path |-> <<"b", ".", "t", "s">>,
     content |-> <<"i", "m", "p", "o", "r", "t", " ", "{", " ", "a", " ", "}", " ", "f", "r", "o", "m", " ", "\"", ".", "/", "a", "\"", ";", "\n">>,
     token_count |-> {}]

\* c.ts: import { a } from "./a";
File_c_imports_a ==
    [path |-> <<"c", ".", "t", "s">>,
     content |-> <<"i", "m", "p", "o", "r", "t", " ", "{", " ", "a", " ", "}", " ", "f", "r", "o", "m", " ", "\"", ".", "/", "a", "\"", ";", "\n">>,
     token_count |-> Some(2)]

\* README.md: # Title (token count 0 supplied by the caller)
File_readme ==
    [path |-> <<"R", "E", "A", "D", "M", "E", ".", "m", "d">>,
     content |-> <<"#", " ", "T", "i", "t", "l", "e", "\n">>,
     token_count |-> Some(0)]

\* pkg\README.md, a path in the backslash convention; empty content
File_pkg_readme ==
    [path |-> <<"p", "k", "g", "\\", "R", "E", "A", "D", "M", "E", ".", "m", "d">>,
     content |-> <<>>,
     token_count |-> {}]

\* guide.md: import a from "./a"; import c from "./c";
File_guide ==
    [path |-> <<"g", "u", "i", "d", "e", ".", "m", "d">>,
     content |-> <<"i", "m", "p", "o", "r", "t", " ", "a", " ", "f", "r", "o", "m", " ", "\"", ".", "/", "a", "\"", ";", "\n", "i", "m", "p", "o", "r", "t", " ", "c", " ", "f", "r", "o", "m", " ", "\"", ".", "/", "c", "\"", ";", "\n">>,
     token_count |-> Some(5)]

\* The files offered to pack_files: code with a dependency cycle, a
\* self-import and a plain file, and documentation under both separator
\* conventions
PackPool ==
    { File_a_imports_b, File_b_imports_a, File_a_imports_itself, File_b_plain,
      File_readme, File_pkg_readme, File_guide }

\* The files offered to compute_dependency_order: chains, a self-import,
\* cycles of two and of three files, and a file with two dependencies
OrderPool ==
    { File_a_imports_b, File_a_imports_itself, File_b_plain, File_b_imports_c,
      File_b_imports_a, File_c_imports_a, File_guide }

\* c.ts: import { a } from "./a"; import x from "./a.ts";
File_c_imports_a_twice ==
    [path |-> <<"c", ".", "t", "s">>,
     content |-> <<"i", "m", "p", "o", "r", "t", " ", "{", " ", "a", " ", "}", " ", "f", "r", "o", "m", " ", "\"", ".", "/", "a", "\"", ";", "\n", "i", "m", "p", "o", "r", "t", " ", "x", " ", "f", "r", "o", "m", " ", "\"", ".", "/", "a", ".", "t", "s", "\"", ";", "\n">>,
     token_count |-> {}]

\* ab.ts: import { c } from "./c";
File_ab_imports_c ==
    [path |-> <<"a", "b", ".", "t", "s">>,
     content |-> <<"i", "m", "p", "o", "r", "t", " ", "{", " ", "c", " ", "}", " ", "f", "r", "o", "m", " ", "\"", ".", "/", "c", "\"", ";", "\n">>,
     token_count |-> {}]

\* The files offered to compute_dependency_order next to a cycle: a cycle of
\* two files, a file that depends on the cycle through two specifiers for
\* the same file, a file that depends on that one, and a self-import
CyclePool ==
    { File_a_imports_b, File_b_imports_a, File_c_imports_a_twice, File_ab_imports_c,
      File_a_imports_itself }

FileLists(pool, max) == UNION {[1..n -> pool] : n \in 0..max}

Idle == [state |-> "idle"]

\* The workers of the async runtime that run the commands of lib.rs
Workers == {"w1", "w2"}

NoCalls == [w \in Workers |-> Idle]

\* FsScopeState::default()
FsScopeState == [project_roots |-> <<>>, export_roots |-> <<>>]

----------------------------------------------------------------------------
(* pack_files as one call                                                  *)

Init ==
    /\ platform \in Platforms
    /\ hash_order \in HashOrders
    /\ phase = "called"
    /\ files \in FileLists(PackPool, MaxFiles)
    /\ num_packs \in 0..MaxPacks
    /\ run = Idle
    /\ kahn = Idle
    /\ dist = Idle
    /\ unit = Idle
    /\ workers = NoCalls
    /\ log = {}
    /\ allow_list = FsScopeState

\* pack_files on an empty file list: the early return
PackNothing ==
    /\ phase = "called"
    /\ files = <<>>
    /\ run' = pack_files(files, num_packs)
    /\ phase' = "returned"
    /\ UNCHANGED <<platform, hash_order, unit, workers, log, allow_list, files, num_packs, kahn, dist>>

\* pack_files on a non-empty file list
PackFiles ==
    /\ phase = "called"
    /\ files # <<>>
    /\ run' = pack_files(files, num_packs)
    /\ phase' = "returned"
    /\ UNCHANGED <<platform, hash_order, unit, workers, log, allow_list, files, num_packs, kahn, dist>>

Next == PackNothing \/ PackFiles

Spec == Init /\ [][Next]_vars

----------------------------------------------------------------------------
(* compute_dependency_order alone, one loop iteration at a time            *)

InitOrder ==
    /\ platform \in Platforms
    /\ hash_order \in HashOrders
    /\ phase = "order_called"
    /\ files \in FileLists(OrderPool, MaxOrderFiles)
    /\ num_packs = 0
    /\ run = Idle
    /\ kahn = Idle
    /\ dist = Idle
    /\ unit = Idle
    /\ workers = NoCalls
    /\ log = {}
    /\ allow_list = FsScopeState

\* `if n <= 1 { return (0..n).collect(); }`
OrderTrivial ==
    /\ phase = "order_called"
    /\ Len(files) <= 1
    /\ kahn' = [order |-> compute_dependency_order(files)]
    /\ phase' = "order_returned"
    /\ UNCHANGED <<platform, hash_order, unit, workers, log, allow_list, files, num_packs, run, dist>>

LoopState(graph) == [graph |-> graph, st |-> KahnStart(graph)]

\* build_dependency_graph and the initial ready set
OrderStart ==
    /\ phase = "order_called"
    /\ Len(files) > 1
    /\ kahn' = unwrap({LoopState(graph) : graph \in Some(build_dependency_graph(files))})
    /\ phase' = "order_loop"
    /\ UNCHANGED <<platform, hash_order, unit, workers, log, allow_list, files, num_packs, run, dist>>

\* One iteration of the while loop
OrderStep ==
    /\ phase = "order_loop"
    /\ kahn.st.ready # {}
    /\ kahn' = [kahn EXCEPT !.st = KahnStep(kahn.st, kahn.graph)]
    /\ UNCHANGED <<platform, hash_order, unit, workers, log, allow_list, phase, files, num_packs, run, dist>>

\* The loop's exit, the cycles fallback and the return
OrderFinish ==
    /\ phase = "order_loop"
    /\ kahn.st.ready = {}
    /\ kahn' = [graph |-> kahn.graph, st |-> kahn.st,
                order |-> CycleFallback(kahn.st, kahn.graph)]
    /\ phase' = "order_returned"
    /\ UNCHANGED <<platform, hash_order, unit, workers, log, allow_list, files, num_packs, run, dist>>

NextOrder == OrderTrivial \/ OrderStart \/ OrderStep \/ OrderFinish

SpecOrder == InitOrder /\ [][NextOrder]_vars

\* The loop is sequential code: an iteration that can run does run, and the
\* function returns once the ready set is empty.
SpecOrderFair == SpecOrder /\ WF_vars(OrderStep) /\ WF_vars(OrderFinish)

----------------------------------------------------------------------------
(* compute_dependency_order on files next to a dependency cycle            *)

InitCycles ==
    /\ platform \in Platforms
    /\ hash_order \in HashOrders
    /\ phase = "order_called"
    /\ files \in FileLists(CyclePool, MaxCycleFiles)
    /\ num_packs = 0
    /\ run = Idle
    /\ kahn = Idle
    /\ dist = Idle
    /\ unit = Idle
    /\ workers = NoCalls
    /\ log = {}
    /\ allow_list = FsScopeState

SpecCycles == InitCycles /\ [][NextOrder]_vars

----------------------------------------------------------------------------
(* distribute_files alone                                                  *)

DistributeCalls ==
    UNION {[ordered_indices : {IndexRange(n), Reverse(IndexRange(n))},
            num_packs : 0..MaxDistPacks,
            token_counts : [0..(n - 1) -> 0..MaxTokens]] : n \in 0..MaxDistFiles}

InitDistribute ==
    /\ platform \in Platforms
    /\ hash_order \in HashOrders
    /\ phase = "distribute_called"
    /\ files = <<>>
    /\ num_packs = 0
    /\ run = Idle
    /\ kahn = Idle
    /\ dist \in DistributeCalls
    /\ unit = Idle
    /\ workers = NoCalls
    /\ log = {}
    /\ allow_list = FsScopeState

WithBins(call, bs) ==
    [ordered_indices |-> call.ordered_indices, num_packs |-> call.num_packs,
     token_counts |-> call.token_counts, bins |-> bs]

DistributeFiles ==
    /\ phase = "distribute_called"
    /\ dist' = WithBins(dist, distribute_files(dist.ordered_indices, dist.num_packs,
                                               dist.token_counts))
    /\ phase' = "distribute_returned"
    /\ UNCHANGED <<platform, hash_order, unit, workers, log, allow_list, files, num_packs, run, kahn>>

NextDistribute == DistributeFiles

SpecDistribute == InitDistribute /\ [][NextDistribute]_vars

----------------------------------------------------------------------------
(* resolve_module_specifier alone                                          *)

\* @/lib/utils, @/x, @/x.v2, @/, react, ./x
ResolveSpecifiers ==
    { <<"@", "/">>,
      <<"@", "/", "l", "i", "b", "/", "u", "t", "i", "l", "s">>,
      <<"@", "/", "x">>,
      <<"@", "/", "x", ".", "v", "2">>,
      <<"r", "e", "a", "c", "t">>,
      <<".", "/", "x">> }

\* src/App.tsx, lib/deep/x.ts, main.ts
ResolveCurrentPaths ==
    { <<"s", "r", "c", "/", "A", "p", "p", ".", "t", "s", "x">>,
      <<"l", "i", "b", "/", "d", "e", "e", "p", "/", "x", ".", "t", "s">>,
      <<"m", "a", "i", "n", ".", "t", "s">> }

\* src/.ts, src/lib/utils.ts, src/lib/utils/index.ts, src/x.md, src/x.v2.ts,
\* react/index.js, @/x.ts, src/x, src/lib/utils.js: the normalized paths a
\* request may hold
ResolveKnownPaths ==
    << <<"s", "r", "c", "/", ".", "t", "s">>,
       <<"s", "r", "c", "/", "l", "i", "b", "/", "u", "t", "i", "l", "s", ".", "t", "s">>,
       <<"s", "r", "c", "/", "l", "i", "b", "/", "u", "t", "i", "l", "s", "/", "i", "n", "d", "e", "x", ".", "t", "s">>,
       <<"s", "r", "c", "/", "x", ".", "m", "d">>,
       <<"s", "r", "c", "/", "x", ".", "v", "2", ".", "t", "s">>,
       <<"r", "e", "a", "c", "t", "/", "i", "n", "d", "e", "x", ".", "j", "s">>,
       <<"@", "/", "x", ".", "t", "s">>,
       <<"s", "r", "c", "/", "x">>,
       <<"s", "r", "c", "/", "l", "i", "b", "/", "u", "t", "i", "l", "s", ".", "j", "s">> >>

\* The path_to_idx maps over the subsets of ResolveKnownPaths
ResolveMaps ==
    {[path \in {ResolveKnownPaths[i] : i \in chosen} |->
         CHOOSE i \in chosen : ResolveKnownPaths[i] = path] :
             chosen \in SUBSET (1..Len(ResolveKnownPaths))}

InitResolve ==
    /\ platform \in Platforms
    /\ hash_order \in HashOrders
    /\ phase = "resolve_called"
    /\ files = <<>>
    /\ num_packs = 0
    /\ run = Idle
    /\ kahn = Idle
    /\ dist = Idle
    /\ unit \in [specifier : ResolveSpecifiers, current_path : ResolveCurrentPaths,
                  path_to_idx : ResolveMaps]
    /\ workers = NoCalls
    /\ log = {}
    /\ allow_list = FsScopeState

WithResolved(call, resolved) ==
    [specifier |-> call.specifier, current_path |-> call.current_path,
     path_to_idx |-> call.path_to_idx, resolved |-> resolved]

ResolveSpecifier ==
    /\ phase = "resolve_called"
    /\ unit' = WithResolved(unit, resolve_module_specifier(unit.specifier, unit.current_path,
                                                           unit.path_to_idx))
    /\ phase' = "resolve_returned"
    /\ UNCHANGED <<platform, hash_order, workers, log, allow_list, files, num_packs, run, kahn, dist>>

SpecResolve == InitResolve /\ [][ResolveSpecifier]_vars

----------------------------------------------------------------------------
(* extract_module_specifiers alone                                         *)

\* Lines of a source text: three comment lines with import-like text and
\* quoted literals, an empty line, a line of blanks, and an import
ExtractLines ==
    { <<"/", "/", " ", "i", "m", "p", "o", "r", "t", " ", "x", " ", "f", "r", "o", "m", " ", "\"", ".", "/", "a", "\"">>,
      <<" ", " ", "#", " ", "f", "r", "o", "m", " ", "a", " ", "i", "m", "p", "o", "r", "t", " ", "b">>,
      <<" ", "*", " ", "r", "e", "q", "u", "i", "r", "e", "(", "\"", ".", "/", "b", "\"", ")">>,
      <<>>,
      <<" ", "\t", " ">>,
      <<"i", "m", "p", "o", "r", "t", " ", "a", " ", "f", "r", "o", "m", " ", "\"", ".", "/", "a", "\"">> }

\* Each line followed by the terminator
RECURSIVE Terminated(_, _)
Terminated(ls, terminator) ==
    IF ls = <<>> THEN <<>> ELSE Head(ls) \o terminator \o Terminated(Tail(ls), terminator)

\* The texts of up to MaxLines lines, with Unix or Windows line ends, the
\* last line terminated or not
ExtractTexts ==
    {Terminated(ls, terminator) : ls \in FileLists(ExtractLines, MaxLines),
                                  terminator \in {<<"\n">>, <<"\r", "\n">>}}
        \cup {join(ls, <<"\n">>) : ls \in FileLists(ExtractLines, MaxLines)}

InitExtract ==
    /\ platform \in Platforms
    /\ hash_order \in HashOrders
    /\ phase = "extract_called"
    /\ files = <<>>
    /\ num_packs = 0
    /\ run = Idle
    /\ kahn = Idle
    /\ dist = Idle
    /\ unit \in [content : ExtractTexts]
    /\ workers = NoCalls
    /\ log = {}
    /\ allow_list = FsScopeState

\* The Vec returned, in the iteration order of the HashSet
ExtractModuleSpecifiers ==
    /\ phase = "extract_called"
    /\ unit' = [content |-> unit.content,
                specifiers |-> SetToSeq(extract_module_specifiers(unit.content))]
    /\ phase' = "extract_returned"
    /\ UNCHANGED <<platform, hash_order, workers, log, allow_list, files, num_packs, run, kahn, dist>>

SpecExtract == InitExtract /\ [][ExtractModuleSpecifiers]_vars

----------------------------------------------------------------------------
(* pack_files invoked from several workers, next to the commands of fs.rs  *)

\* The requests sent: code files around a shared dependency, documentation
\* with a dependency cycle, and the empty request
CallRequests ==
    { [files |-> <<File_a_imports_itself, File_b_imports_a, File_c_imports_a>>, num_packs |-> 2],
      [files |-> <<File_guide, File_b_imports_a, File_a_imports_b>>, num_packs |-> 3],
      [files |-> <<>>, num_packs |-> 3] }

\* The canonical directories the fs commands are given
RootPool == {<<"/", "p", "r", "o", "j">>}

InitCalls ==
    /\ platform \in Platforms
    /\ hash_order \in HashOrders
    /\ phase = "serving"
    /\ files = <<>>
    /\ num_packs = 0
    /\ run = Idle
    /\ kahn = Idle
    /\ dist = Idle
    /\ unit = Idle
    /\ workers = NoCalls
    /\ log = {}
    /\ allow_list = FsScopeState

\* The frame of a step of worker w: the other workers and the allow-list
\* stay as they are, and the sets built by the next step are seeded anew.
StepOf(w, call) ==
    /\ workers' = [workers EXCEPT ![w] = call]
    /\ hash_order' \in HashOrders
    /\ UNCHANGED <<platform, phase, files, num_packs, run, kahn, dist, unit, allow_list>>

\* The command is invoked with a request
Invoke(w) ==
    /\ workers[w] = Idle
    /\ \E request \in CallRequests : StepOf(w, [state |-> "called", request |-> request])
    /\ UNCHANGED log

\* `if files.is_empty() { return Ok(PackResponse { packs: Vec::new(), total_tokens: 0 }); }`
ReturnEmpty(w) ==
    /\ workers[w].state = "called"
    /\ workers[w].request.files = <<>>
    /\ log' = log \cup {[request |-> workers[w].request,
                          response |-> [packs |-> <<>>, total_tokens |-> 0]]}
    /\ StepOf(w, Idle)

\* `let dependency_order = compute_dependency_order(files);`
Order(w) ==
    /\ workers[w].state = "called"
    /\ workers[w].request.files # <<>>
    /\ StepOf(w, [state |-> "ordered",
                  request |-> workers[w].request,
                  dependency_order |-> compute_dependency_order(workers[w].request.files)])
    /\ UNCHANGED log

\* `let (docs_order, code_order_initial) = split_docs_and_code(&dependency_order, files);`
Split(w) ==
    /\ workers[w].state = "ordered"
    /\ StepOf(w, [state |-> "split",
                  request |-> workers[w].request,
                  docs_order |-> split_docs_and_code(workers[w].dependency_order,
                                                     workers[w].request.files).docs,
                  code_order_initial |-> split_docs_and_code(workers[w].dependency_order,
                                                             workers[w].request.files).code])
    /\ UNCHANGED log

\* `let related_graph = build_related_adjacency(files);
\*  let code_order = group_code_by_related_components(&code_order_initial, &related_graph);`
Group(w) ==
    /\ workers[w].state = "split"
    /\ StepOf(w, [state |-> "grouped",
                  request |-> workers[w].request,
                  docs_order |-> workers[w].docs_order,
                  code_order |-> group_code_by_related_components(
                                     workers[w].code_order_initial,
                                     build_related_adjacency(workers[w].request.files))])
    /\ UNCHANGED log

\* `let bins = distribute_with_doc_strategy(&docs_order, &code_order, num_packs, &token_counts);`
Distribute(w) ==
    /\ workers[w].state = "grouped"
    /\ StepOf(w, [state |-> "distributed",
                  request |-> workers[w].request,
                  bins |-> distribute_with_doc_strategy(
                               workers[w].docs_order, workers[w].code_order,
                               Max2(workers[w].request.num_packs, 1),
                               TokenCounts(workers[w].request.files))])
    /\ UNCHANGED log

\* The packs are built and `Ok(PackResponse { packs, total_tokens })` is returned
Respond(w) ==
    /\ workers[w].state = "distributed"
    /\ log' = log \cup {[request |-> workers[w].request,
                          response |-> [packs |-> PacksOf(workers[w].bins,
                                                          workers[w].request.files,
                                                          TokenCounts(workers[w].request.files)),
                                        total_tokens |-> SumTokens(
                                            IndexRange(Len(workers[w].request.files)),
                                            TokenCounts(workers[w].request.files))]]}
    /\ StepOf(w, Idle)

\* Vec::push unless the root is there already
Remembered(roots, root) == IF root \in Range(roots) THEN roots ELSE Append(roots, root)

\* walk_directory: remember_project_root(canonical_root)
WalkDirectory ==
    /\ \E root \in RootPool :
           allow_list' = [allow_list EXCEPT !.project_roots = Remembered(@, root)]
    /\ allow_list' # allow_list
    /\ UNCHANGED <<platform, hash_order, phase, files, num_packs, run, kahn, dist, unit,
                   workers, log>>

\* authorize_export_directory: remember_export_root(canonical)
AuthorizeExportDirectory ==
    /\ \E root \in RootPool :
           allow_list' = [allow_list EXCEPT !.export_roots = Remembered(@, root)]
    /\ allow_list' # allow_list
    /\ UNCHANGED <<platform, hash_order, phase, files, num_packs, run, kahn, dist, unit,
                   workers, log>>

NextCalls ==
    \/ \E w \in Workers :
           \/ Invoke(w)
           \/ ReturnEmpty(w)
           \/ Order(w)
           \/ Split(w)
           \/ Group(w)
           \/ Distribute(w)
           \/ Respond(w)
    \/ WalkDirectory
    \/ AuthorizeExportDirectory

SpecCalls == InitCalls /\ [][NextCalls]_vars


----------------------------------------------------------------------------
(* split_docs_and_code called alone                                        *)

MaxSplitFiles == 3   \* files given to split_docs_and_code alone

\* Paths of every extension of is_doc_file and of every bucket of
\* doc_priority, in both letter cases and separator styles, and paths
\* without a documentation extension.
SplitPaths ==
    { <<"R", "E", "A", "D", "M", "E", ".", "m", "d">>,
      <<"d", "o", "c", "s", "/", "r", "e", "a", "d", "m", "e", ".", "t", "x", "t">>,
      <<"S", "P", "E", "C", ".", "r", "s", "t">>,
      <<"d", "e", "s", "i", "g", "n", ".", "a", "d", "o", "c">>,
      <<"d", "o", "c", "s", "/", "g", "u", "i", "d", "e", ".", "m", "d", "x">>,
      <<"p", "k", "g", "/", "d", "o", "c", "s", "/", "a", "p", "i", ".", "m", "d">>,
      <<"D", "o", "c", "s", "\\", "Z", ".", "M", "D">>,
      <<"n", "o", "t", "e", "s", ".", "m", "d">>,
      <<"m", "a", "i", "n", ".", "t", "s">>,
      <<"R", "E", "A", "D", "M", "E">>,
      <<".", "m", "d">> }

SplitFiles == {[path |-> p, content |-> <<>>, token_count |-> {}] : p \in SplitPaths}

\* The incoming order is a permutation of the file indices: as listed, or
\* back to front.
SplitOrders(n) == {IndexRange(n), Reverse(IndexRange(n))}

InitSplit ==
    /\ platform \in Platforms
    /\ hash_order = "forward"
    /\ phase = "split_called"
    /\ files \in FileLists(SplitFiles, MaxSplitFiles)
    /\ num_packs = 0
    /\ run = Idle
    /\ kahn = Idle
    /\ dist = Idle
    /\ unit \in {[ordered_indices |-> o] : o \in SplitOrders(Len(files))}
    /\ workers = NoCalls
    /\ log = {}
    /\ allow_list = FsScopeState

WithSplit(call, parts) ==
    [ordered_indices |-> call.ordered_indices, docs |-> parts.docs, code |-> parts.code]

SplitDocsAndCode ==
    /\ phase = "split_called"
    /\ unit' = WithSplit(unit, split_docs_and_code(unit.ordered_indices, files))
    /\ phase' = "split_returned"
    /\ UNCHANGED <<platform, hash_order, workers, log, allow_list, files, num_packs, run, kahn, dist>>

SpecSplit == InitSplit /\ [][SplitDocsAndCode]_vars


----------------------------------------------------------------------------
(* group_code_by_related_components called alone                           *)

MaxGroupFiles == 4     \* files of the request whose code files are grouped
MaxRelatedEdges == 3   \* pairs of related files among them

FilePairs(n) == {pair \in (0..(n - 1)) \X (0..(n - 1)) : pair[1] < pair[2]}

\* The adjacency build_related_adjacency returns: symmetric, no file related
\* to itself
RelatedGraphs(n) ==
    {[i \in 0..(n - 1) |-> {j \in 0..(n - 1) : <<i, j>> \in chosen \/ <<j, i>> \in chosen}] :
        chosen \in {E \in SUBSET FilePairs(n) : Cardinality(E) <= MaxRelatedEdges}}

\* The code files of the request in any order: distinct indices; the files
\* left out are the documentation files.
CodeOrders(n) ==
    UNION {{o \in [1..k -> 0..(n - 1)] : \A i, j \in 1..k : o[i] = o[j] => i = j} : k \in 0..n}

InitGroup ==
    /\ platform = "unix"
    /\ hash_order \in HashOrders
    /\ phase = "group_called"
    /\ files = <<>>
    /\ num_packs = 0
    /\ run = Idle
    /\ kahn = Idle
    /\ dist = Idle
    /\ unit \in [code_order : CodeOrders(MaxGroupFiles), related : RelatedGraphs(MaxGroupFiles)]
    /\ workers = NoCalls
    /\ log = {}
    /\ allow_list = FsScopeState

WithGrouped(call, grouped) ==
    [code_order |-> call.code_order, related |-> call.related, grouped |-> grouped]

GroupCode ==
    /\ phase = "group_called"
    /\ unit' = WithGrouped(unit, group_code_by_related_components(unit.code_order, unit.related))
    /\ phase' = "group_returned"
    /\ UNCHANGED <<platform, hash_order, workers, log, allow_list, files, num_packs, run, kahn, dist>>

SpecGroup == InitGroup /\ [][GroupCode]_vars


----------------------------------------------------------------------------
(* extract_module_specifiers on lines with and without markers             *)

MaxMarkerLines == 2   \* lines of a text given to extract_module_specifiers for its markers

\* Lines with each marker at the start, inside and absent, with escaped,
\* empty and unterminated literals:
\*   import a from "./a"
\*     x = require('./b')
\*   export default "./c";
\*   use "./d";
\*   y = import("./e")
\*   reuse "./f"
\*   t = "import g"
\*   import "h\"i" 'j
\*   import "" 'k'
\*   z = "./n"
\*   // import "./o"
MarkerLines ==
    { <<"i", "m", "p", "o", "r", "t", " ", "a", " ", "f", "r", "o", "m", " ", "\"", ".", "/", "a", "\"">>,
      <<" ", " ", "x", " ", "=", " ", "r", "e", "q", "u", "i", "r", "e", "(", "'", ".", "/", "b", "'", ")">>,
      <<"e", "x", "p", "o", "r", "t", " ", "d", "e", "f", "a", "u", "l", "t", " ", "\"", ".", "/", "c", "\"", ";">>,
      <<"u", "s", "e", " ", "\"", ".", "/", "d", "\"", ";">>,
      <<"y", " ", "=", " ", "i", "m", "p", "o", "r", "t", "(", "\"", ".", "/", "e", "\"", ")">>,
      <<"r", "e", "u", "s", "e", " ", "\"", ".", "/", "f", "\"">>,
      <<"t", " ", "=", " ", "\"", "i", "m", "p", "o", "r", "t", " ", "g", "\"">>,
      <<"i", "m", "p", "o", "r", "t", " ", "\"", "h", "\\", "\"", "i", "\"", " ", "'", "j">>,
      <<"i", "m", "p", "o", "r", "t", " ", "\"", "\"", " ", "'", "k", "'">>,
      <<"z", " ", "=", " ", "\"", ".", "/", "n", "\"">>,
      <<"/", "/", " ", "i", "m", "p", "o", "r", "t", " ", "\"", ".", "/", "o", "\"">> }

MarkerTexts ==
    {Terminated(ls, terminator) : ls \in FileLists(MarkerLines, MaxMarkerLines),
                                  terminator \in {<<"\n">>, <<"\r", "\n">>}}
        \cup {join(ls, <<"\n">>) : ls \in FileLists(MarkerLines, MaxMarkerLines)}

InitMarkers ==
    /\ platform \in Platforms
    /\ hash_order \in HashOrders
    /\ phase = "extract_called"
    /\ files = <<>>
    /\ num_packs = 0
    /\ run = Idle
    /\ kahn = Idle
    /\ dist = Idle
    /\ unit \in [content : MarkerTexts]
    /\ workers = NoCalls
    /\ log = {}
    /\ allow_list = FsScopeState

SpecMarkers == InitMarkers /\ [][ExtractModuleSpecifiers]_vars


----------------------------------------------------------------------------
(* The file commands of fs.rs and their allow-list                         *)

\* A path is the sequence of its components below the file system root; the
\* tree maps the paths that exist to what is there.  /proj holds a file, a
\* symbolic link to a file outside it, and a symbolic link whose target does
\* not exist; /out holds a file.
Dir == [kind |-> "dir"]
File == [kind |-> "file"]
Link(target) == [kind |-> "link", target |-> target]
Nothing == [kind |-> "none"]

Tree ==
    (<<>> :> Dir)
        @@ (<<"proj">> :> Dir)
        @@ (<<"proj", "a.txt">> :> File)
        @@ (<<"proj", "peek">> :> Link(<<"out", "secret.txt">>))
        @@ (<<"proj", "link">> :> Link(<<"out", "new.txt">>))
        @@ (<<"out">> :> Dir)
        @@ (<<"out", "secret.txt">> :> File)

\* /proj, /out, /proj/../out, /nowhere
DirectoryRequests == { <<"proj">>, <<"out">>, <<"proj", "..", "out">>, <<"nowhere">> }

\* /proj/a.txt, /proj/new.txt, /proj/peek, /proj/link, /proj/../out/secret.txt
FileRequests ==
    { <<"proj", "a.txt">>, <<"proj", "new.txt">>, <<"proj", "peek">>, <<"proj", "link">>,
      <<"proj", "..", "out", "secret.txt">> }

EntryAt(tree, path) == IF path \in DOMAIN tree THEN tree[path] ELSE Nothing

\* Path::parent of a path other than the root
parent(path) == SubSeq(path, 1, Len(path) - 1)

path_has_parent_traversal(path) == ".." \in Range(path)

\* std::fs::canonicalize: the components are walked from the root, `..`
\* steps back, a symbolic link is replaced by its target; None when a
\* component does not exist or a file is used as a directory.
RECURSIVE Canonical(_, _, _)
Canonical(tree, done, rest) ==
    IF rest = <<>> THEN Some(done)
    ELSE IF EntryAt(tree, done).kind # "dir" THEN {}
    ELSE IF Head(rest) = ".."
    THEN Canonical(tree, IF done = <<>> THEN done ELSE parent(done), Tail(rest))
    ELSE IF EntryAt(tree, Append(done, Head(rest))).kind = "none" THEN {}
    ELSE IF EntryAt(tree, Append(done, Head(rest))).kind = "link"
    THEN Canonical(tree, <<>>, EntryAt(tree, Append(done, Head(rest))).target \o Tail(rest))
    ELSE Canonical(tree, Append(done, Head(rest)), Tail(rest))

canonicalize_existing_path(tree, path) == Canonical(tree, <<>>, path)

\* Path::exists, is_dir and is_file follow symbolic links
exists(tree, path) == canonicalize_existing_path(tree, path) # {}

KindBehind(tree, path) ==
    IF exists(tree, path) THEN EntryAt(tree, unwrap(canonicalize_existing_path(tree, path))).kind
    ELSE "none"

\* `while !probe.exists() { probe = probe.parent()... }`
RECURSIVE ExistingAncestor(_, _)
ExistingAncestor(tree, probe) ==
    IF exists(tree, probe) \/ probe = <<>> THEN probe
    ELSE ExistingAncestor(tree, parent(probe))

JoinedBelow(canonical_existing, path, probe) ==
    IF canonical_existing = {} THEN {}
    ELSE Some(unwrap(canonical_existing) \o SubSeq(path, Len(probe) + 1, Len(path)))

canonicalize_for_write(tree, path) ==
    IF exists(tree, path) THEN canonicalize_existing_path(tree, path)
    ELSE JoinedBelow(canonicalize_existing_path(tree, ExistingAncestor(tree, path)),
                     path, ExistingAncestor(tree, path))

remember_project_root(state, root) ==
    [state EXCEPT !.project_roots = Remembered(@, root)]

remember_export_root(state, root) ==
    [state EXCEPT !.export_roots = Remembered(@, root)]

\* Path::starts_with compares whole components
is_path_allowed(state, target) ==
    \E root \in Range(state.project_roots \o state.export_roots) : starts_with(target, root)

\* The file that opening write_path for writing creates or truncates: a
\* symbolic link in the last place is followed, also when its target does
\* not exist yet.
RECURSIVE OpenedForWrite(_, _)
OpenedForWrite(tree, write_path) ==
    IF EntryAt(tree, write_path).kind = "link"
    THEN OpenedForWrite(tree, EntryAt(tree, write_path).target)
    ELSE write_path

\* std::fs::create_dir_all: Some(tree with the missing directories), None
\* when a component is there and is not a directory
RECURSIVE create_dir_all(_, _)
create_dir_all(tree, dir) ==
    IF KindBehind(tree, dir) = "dir" THEN Some(tree)
    ELSE IF EntryAt(tree, dir).kind # "none" \/ dir = <<>> THEN {}
    ELSE {(dir :> Dir) @@ made : made \in create_dir_all(tree, parent(dir))}

\* std::fs::write after create_dir_all(parent): Some of the tree with the
\* file and the path of the file written, None on an error.
WrittenAt(tree, opened) ==
    IF KindBehind(tree, parent(opened)) = "dir" /\ EntryAt(tree, opened).kind \in {"none", "file"}
    THEN Some([tree |-> (opened :> File) @@ tree, target |-> Some(opened)])
    ELSE {}

WriteBlocking(tree, write_path) ==
    UNION {WrittenAt(made, OpenedForWrite(made, write_path)) :
               made \in create_dir_all(tree, parent(write_path))}

Outcome(command, path, ok, target) ==
    [command |-> command, path |-> path, ok |-> ok, target |-> target]

InitFs ==
    /\ platform = "unix"
    /\ hash_order = "forward"
    /\ phase = "serving"
    /\ files = <<>>
    /\ num_packs = 0
    /\ run = Idle
    /\ kahn = Idle
    /\ dist = Idle
    /\ unit = [tree |-> Tree]
    /\ workers = NoCalls
    /\ log = {}
    /\ allow_list = FsScopeState

\* A command returns on worker w
Returns(w, outcome) ==
    /\ workers' = [workers EXCEPT ![w] = Idle]
    /\ log' = {outcome}

\* A command goes on to its next await on worker w
Awaits(w, frame) ==
    /\ workers' = [workers EXCEPT ![w] = frame]
    /\ UNCHANGED log

\* walk_directory: build_tree may fail on an I/O error; the root is
\* remembered when it can be canonicalized.
walk_directory(w) ==
    /\ workers[w] = Idle
    /\ \E path \in DirectoryRequests, tree_built \in BOOLEAN :
           IF KindBehind(unit.tree, path) = "dir" /\ tree_built
           THEN /\ allow_list' = remember_project_root(
                                     allow_list, unwrap(canonicalize_existing_path(unit.tree, path)))
                /\ Returns(w, Outcome("walk_directory", path, TRUE, {}))
           ELSE /\ UNCHANGED allow_list
                /\ Returns(w, Outcome("walk_directory", path, FALSE, {}))
    /\ UNCHANGED <<platform, hash_order, phase, files, num_packs, run, kahn, dist, unit>>

authorize_export_directory(w) ==
    /\ workers[w] = Idle
    /\ \E path \in DirectoryRequests :
           IF ~path_has_parent_traversal(path) /\ KindBehind(unit.tree, path) = "dir"
           THEN /\ allow_list' = remember_export_root(
                                     allow_list, unwrap(canonicalize_existing_path(unit.tree, path)))
                /\ Returns(w, Outcome("authorize_export_directory", path, TRUE, {}))
           ELSE /\ UNCHANGED allow_list
                /\ Returns(w, Outcome("authorize_export_directory", path, FALSE, {}))
    /\ UNCHANGED <<platform, hash_order, phase, files, num_packs, run, kahn, dist, unit>>

\* read_file_content up to `tokio_fs::metadata(&file_path).await` and
\* `metadata.is_file()`
read_file_content_metadata(w) ==
    /\ workers[w] = Idle
    /\ \E path \in FileRequests :
           IF ~path_has_parent_traversal(path) /\ KindBehind(unit.tree, path) = "file"
           THEN Awaits(w, [state |-> "read_metadata", path |-> path])
           ELSE Returns(w, Outcome("read_file_content", path, FALSE, {}))
    /\ UNCHANGED <<platform, hash_order, phase, files, num_packs, run, kahn, dist, unit,
                   allow_list>>

\* `tokio_fs::canonicalize(&file_path).await`
read_file_content_canonicalize(w) ==
    /\ workers[w].state = "read_metadata"
    /\ IF exists(unit.tree, workers[w].path)
       THEN Awaits(w, [state |-> "read_canonical", path |-> workers[w].path,
                       canonical_path |->
                           unwrap(canonicalize_existing_path(unit.tree, workers[w].path))])
       ELSE Returns(w, Outcome("read_file_content", workers[w].path, FALSE, {}))
    /\ UNCHANGED <<platform, hash_order, phase, files, num_packs, run, kahn, dist, unit,
                   allow_list>>

\* `is_path_allowed(&canonical_path)` and `tokio_fs::read(&canonical_path).await`
read_file_content_read(w) ==
    /\ workers[w].state = "read_canonical"
    /\ IF /\ is_path_allowed(allow_list, workers[w].canonical_path)
          /\ KindBehind(unit.tree, workers[w].canonical_path) = "file"
       THEN Returns(w, Outcome("read_file_content", workers[w].path, TRUE,
                               canonicalize_existing_path(unit.tree, workers[w].canonical_path)))
       ELSE Returns(w, Outcome("read_file_content", workers[w].path, FALSE, {}))
    /\ UNCHANGED <<platform, hash_order, phase, files, num_packs, run, kahn, dist, unit,
                   allow_list>>

\* The checks of write_file_content
WriteAllowed(state, tree, path) ==
    /\ ~path_has_parent_traversal(path)
    /\ KindBehind(tree, path) # "dir"
    /\ canonicalize_for_write(tree, path) # {}
    /\ is_path_allowed(state, unwrap(canonicalize_for_write(tree, path)))

\* write_file_content up to `async_runtime::spawn_blocking(...)`
write_file_content_check(w) ==
    /\ workers[w] = Idle
    /\ \E path \in FileRequests :
           IF WriteAllowed(allow_list, unit.tree, path)
           THEN Awaits(w, [state |-> "write_spawned", path |-> path,
                           write_path |-> unwrap(canonicalize_for_write(unit.tree, path))])
           ELSE Returns(w, Outcome("write_file_content", path, FALSE, {}))
    /\ UNCHANGED <<platform, hash_order, phase, files, num_packs, run, kahn, dist, unit,
                   allow_list>>

\* The blocking task: create_dir_all(parent) and std::fs::write
write_file_content_write(w) ==
    /\ workers[w].state = "write_spawned"
    /\ IF WriteBlocking(unit.tree, workers[w].write_path) # {}
       THEN /\ unit' = [tree |-> unwrap(WriteBlocking(unit.tree, workers[w].write_path)).tree]
            /\ Returns(w, Outcome("write_file_content", workers[w].path, TRUE,
                                  unwrap(WriteBlocking(unit.tree, workers[w].write_path)).target))
       ELSE /\ UNCHANGED unit
            /\ Returns(w, Outcome("write_file_content", workers[w].path, FALSE, {}))
    /\ UNCHANGED <<platform, hash_order, phase, files, num_packs, run, kahn, dist, allow_list>>

NextFs ==
    \E w \in Workers :
        \/ walk_directory(w)
        \/ authorize_export_directory(w)
        \/ read_file_content_metadata(w)
        \/ read_file_content_canonicalize(w)
        \/ read_file_content_read(w)
        \/ write_file_content_check(w)
        \/ write_file_content_write(w)

SpecFs == InitFs /\ [][NextFs]_vars

----------------------------------------------------------------------------
(* Properties                                                              *)

Count(seq, x) == Cardinality({i \in 1..Len(seq) : seq[i] = x})

\* seq holds each of 0..n-1 exactly once
IsPermutationOfIndices(seq, n) == Len(seq) = n /\ Range(seq) = 0..(n - 1)

\* The first place of x in seq
PlaceOf(seq, x) == SetMin({i \in 1..Len(seq) : seq[i] = x})

Returned == phase = "returned" /\ files # <<>>

\* The paths of all packs of the response, in pack order
PackedPaths == Flatten([k \in 1..Len(run.response.packs) |-> run.response.packs[k].file_paths])

InputPaths == [i \in 1..Len(files) |-> files[i].path]

\* C1: for a non-empty file list and a requested pack count >= 1, every
\* file index is in exactly one bin, and the paths listed by the packs are
\* the input paths with the same multiplicities.
C1_EveryFileInExactlyOnePack ==
    (Returned /\ num_packs >= 1) =>
        /\ IsPermutationOfIndices(Flatten(run.bins), Len(files))
        /\ \A path \in Range(InputPaths) \cup Range(PackedPaths) :
               Count(PackedPaths, path) = Count(InputPaths, path)

\* A request with a path given twice and a documentation file, answered
\* with more than one pack.
C1_Witness ==
    /\ Returned /\ num_packs >= 1
    /\ Len(files) = 3
    /\ files[1].path = files[3].path
    /\ is_doc_file(files[2].path)
    /\ Len(run.response.packs) >= 2

SumEstimated(packs) ==
    SumTokens(IndexRange(Len(packs)), [k \in 0..(Len(packs) - 1) |-> packs[k + 1].estimated_tokens])

\* C2: the token totals of the packs add up to the sum of the per-file
\* token counts, which is the response's total_tokens.
C2_TokenTotalsAgree ==
    phase = "returned" =>
        /\ SumEstimated(run.response.packs) = run.response.total_tokens
        /\ SumEstimated(run.response.packs) = SumTokens(IndexRange(Len(files)), TokenCounts(files))

\* Several packs, over files with supplied and with estimated token counts
C2_Witness ==
    /\ Returned
    /\ Len(run.response.packs) >= 2
    /\ \E i \in 1..Len(files) : files[i].token_count = {}
    /\ \E i \in 1..Len(files) : files[i].token_count # {} /\ unwrap(files[i].token_count) > 0
    /\ \E k \in 1..Len(run.response.packs) : run.response.packs[k].file_count >= 2

MixedMode == run.docs_order # <<>> /\ run.code_order # <<>> /\ num_packs > 1

\* C3: for a non-empty input and a requested pack count R >= 1 the response
\* holds at least one and at most R packs.
C3_PackCountWithinRequest ==
    (Returned /\ num_packs >= 1) =>
        /\ Len(run.response.packs) >= 1
        /\ Len(run.response.packs) <= num_packs
        /\ Len(run.bins) = Len(run.response.packs)

\* Mixed mode filling every requested pack
C3_Witness ==
    /\ Returned /\ MixedMode
    /\ Len(run.docs_order) = 2
    /\ num_packs = 3
    /\ Len(run.response.packs) = 3

\* C4: no bin returned by the distribution and no pack of the response is
\* empty.
C4_NoEmptyPack ==
    phase = "returned" =>
        /\ files # <<>> => \A b \in 1..Len(run.bins) : run.bins[b] # <<>>
        /\ \A k \in 1..Len(run.response.packs) :
               /\ run.response.packs[k].file_count >= 1
               /\ run.response.packs[k].file_paths # <<>>

\* Fewer packs than both the request and the file count allow: a bin was
\* left empty and dropped.
C4_Witness ==
    /\ Returned
    /\ num_packs >= 2
    /\ Len(files) >= 2
    /\ Len(run.bins) = 1

\* The files a file references: b is in RefersTo(fs)[a] when a specifier
\* extracted from file a resolves to file b.
ResolvedFrom(fs, a, normalized_paths, path_to_idx) ==
    UNION {resolve_module_specifier(specifier, normalized_paths[a], path_to_idx) :
               specifier \in extract_module_specifiers(fs[a + 1].content)}

RefersAmong(fs, normalized_paths) ==
    [a \in FileIndices(fs) |-> ResolvedFrom(fs, a, normalized_paths, PathToIdx(normalized_paths))]

RefersTo(fs) == RefersAmong(fs, NormalizedPaths(fs))

\* The pairs <<a, b>> with a referencing a different file b
ReferencePairs(refers) ==
    {pair \in (DOMAIN refers) \X (DOMAIN refers) :
         pair[1] # pair[2] /\ pair[2] \in refers[pair[1]]}

Chained(pairs) ==
    {<<q[1][1], q[2][2]>> : q \in {q \in pairs \X pairs : q[1][2] = q[2][1]}}

RECURSIVE TransitiveClosure(_, _)
TransitiveClosure(pairs, rounds) ==
    IF rounds = 0 THEN pairs
    ELSE TransitiveClosure(pairs \cup Chained(pairs), rounds - 1)

\* a is on a dependency cycle or depends, directly or transitively, on a
\* file that is; depends is the transitive closure of the reference pairs.
CycleBound(a, depends) ==
    \E c \in {pair[1] : pair \in {pair \in depends : pair[1] = pair[2]}} :
        c = a \/ <<a, c>> \in depends

OrderReturned == phase = "order_returned"

DependenciesFirst(order, pairs) ==
    \A pair \in pairs : PlaceOf(order, pair[2]) < PlaceOf(order, pair[1])

DependenciesFirstOffCycles(order, pairs, depends) ==
    \A pair \in pairs :
        ~(CycleBound(pair[1], depends) /\ CycleBound(pair[2], depends))
            => PlaceOf(order, pair[2]) < PlaceOf(order, pair[1])

\* C5 as stated: whenever file A references a different file B through a
\* specifier that resolves to B, B precedes A in the order returned by
\* compute_dependency_order.
C5_DependencyAlwaysFirst ==
    OrderReturned => DependenciesFirst(kahn.order, ReferencePairs(RefersTo(files)))

OffCyclesIn(order, pairs, n) ==
    DependenciesFirstOffCycles(order, pairs, TransitiveClosure(pairs, n))

\* C5, amended: whenever file A references a different file B through a
\* specifier that resolves to B, B precedes A in the order returned by
\* compute_dependency_order, unless both A and B are on a dependency cycle
\* or depend, directly or transitively, on a file that is.
C5_DependencyFirstOffCycles ==
    OrderReturned => OffCyclesIn(kahn.order, ReferencePairs(RefersTo(files)), Len(files))

HasLateDependency(order, pairs, depends) ==
    \E pair \in pairs :
        /\ pair[1] < pair[2]
        /\ ~CycleBound(pair[1], depends)
        /\ PlaceOf(order, pair[2]) < PlaceOf(order, pair[1])

LateDependencyIn(order, pairs, n) ==
    HasLateDependency(order, pairs, TransitiveClosure(pairs, n))

\* A file that references a file listed after it, with no cycle involved:
\* the order returned has moved the dependency in front.
C5_Witness ==
    /\ OrderReturned
    /\ Len(files) = 3
    /\ LateDependencyIn(kahn.order, ReferencePairs(RefersTo(files)), Len(files))

\* C6: compute_dependency_order returns for every input, and what it
\* returns is a permutation of 0..n-1: the loop, once entered, is left and
\* the function returns (the early return for at most one file and the
\* graph construction are single steps), and every order returned holds
\* each of 0..n-1 exactly once.
C6_ReturnsPermutation ==
    /\ (phase = "order_loop") ~> OrderReturned
    /\ [](OrderReturned => IsPermutationOfIndices(kahn.order, Len(files)))

AllCycleBound(pairs, depends, n) ==
    \A a \in 0..(n - 1) : CycleBound(a, depends)

AllCycleBoundIn(pairs, n) == AllCycleBound(pairs, TransitiveClosure(pairs, n), n)

\* Three files that import one another in a ring: the loop emits nothing
\* and the fallback returns all three.
C6_Witness ==
    /\ OrderReturned
    /\ Len(files) = 3
    /\ kahn.st.order = <<>>
    /\ Len(kahn.order) = 3
    /\ AllCycleBoundIn(ReferencePairs(RefersTo(files)), 3)
    /\ Cardinality(ReferencePairs(RefersTo(files))) = 3

DistributeReturned == phase = "distribute_returned"

OneEach(ordered_indices) == [k \in 1..Len(ordered_indices) |-> <<ordered_indices[k]>>]

\* C7: distribute_files over N >= 1 files with a requested pack count of at
\* least N returns exactly N packs, the k-th holding the k-th file alone,
\* whatever the token weights.
C7_OneFilePerPack ==
    (/\ DistributeReturned
     /\ Len(dist.ordered_indices) >= 1
     /\ dist.num_packs >= Len(dist.ordered_indices))
        => dist.bins = OneEach(dist.ordered_indices)

\* C8: distribute_files with a pack count of 1 returns one pack holding the
\* whole sequence in its original order.
C8_SinglePackHoldsAll ==
    (/\ DistributeReturned
     /\ Len(dist.ordered_indices) >= 1
     /\ dist.num_packs = 1)
        => dist.bins = <<dist.ordered_indices>>

\* One pack asked for four files of different weights, given in descending
\* index order
C8_Witness ==
    /\ DistributeReturned
    /\ dist.num_packs = 1
    /\ dist.ordered_indices = <<3, 2, 1, 0>>
    /\ dist.token_counts[0] # dist.token_counts[3]
    /\ dist.bins = <<(<<3, 2, 1, 0>>)>>

\* The related pairs among the code files
RelatedPairs(code, related) ==
    {pair \in Range(code) \X Range(code) : pair[2] \in related[pair[1]]}

\* Members of one connected component lie in one unbroken stretch of order;
\* connected is the transitive closure of the related pairs.
Contiguous(order, connected) ==
    \A i \in 1..Len(order) : \A j \in (i + 1)..Len(order) :
        <<order[i], order[j]>> \in connected
            => \A k \in i..j : <<order[i], order[k]>> \in connected

ContiguousIn(order, pairs) == Contiguous(order, TransitiveClosure(pairs, Len(order)))

\* C9: in the output of group_code_by_related_components the members of
\* each connected component of the related-adjacency graph (restricted to
\* the code files) occupy a contiguous block; the two files of a two-member
\* component are adjacent.
C9_ComponentsContiguous ==
    Returned => ContiguousIn(run.code_order,
                             RelatedPairs(run.code_order_initial, run.related_graph))

\* Three code files where the grouping had to move one: the first and the
\* last are related, the middle one is not.
C9_Witness ==
    /\ Returned
    /\ Len(run.code_order_initial) = 3
    /\ run.code_order # run.code_order_initial
    /\ run.code_order_initial[3] \in run.related_graph[run.code_order_initial[1]]
    /\ run.related_graph[run.code_order_initial[2]] = {}

\* The last component of a path under either directory-separator
\* convention, lowercased
BasenameOf(path) ==
    to_ascii_lowercase(unwrap(LastNormal(
        SelectSeq(split(path, {"/", "\\"}), LAMBDA c : c # <<>> /\ c # <<".">>))))

IsReadme(file) == starts_with(BasenameOf(file.path), <<"r", "e", "a", "d", "m", "e">>)

ReadmesLead(docs, fs) ==
    \A i \in 1..Len(docs) : \A j \in 1..Len(docs) :
        (IsReadme(fs[docs[i] + 1]) /\ ~IsReadme(fs[docs[j] + 1])) => i < j

\* C10: in the docs list of split_docs_and_code every documentation file
\* whose basename starts with "readme" (case-insensitively) precedes every
\* documentation file whose basename does not, under either
\* directory-separator convention.
C10_ReadmeDocsFirst ==
    Returned => ReadmesLead(run.docs_order, files)

\* The consecutive slices of `size` elements of a sequence
Slices(seq, size) ==
    [b \in 1..(Len(seq) \div size) |-> SubSeq(seq, (b - 1) * size + 1, b * size)]

EqualPositiveWeights(call) ==
    \E w \in 1..MaxTokens : \A i \in DOMAIN call.token_counts : call.token_counts[i] = w

\* C11: when all N >= 1 files have the same positive weight and the pack
\* count P >= 1 divides N, distribute_files returns exactly P packs, each
\* the next N/P files of the input in their original order.
C11_EqualWeightsEqualPacks ==
    (/\ DistributeReturned
     /\ Len(dist.ordered_indices) >= 1
     /\ dist.num_packs >= 1
     /\ Len(dist.ordered_indices) % dist.num_packs = 0
     /\ EqualPositiveWeights(dist))
        => /\ Len(dist.bins) = dist.num_packs
           /\ dist.bins = Slices(dist.ordered_indices,
                                 Len(dist.ordered_indices) \div dist.num_packs)

\* Four files of the same weight above one, in descending index order, in
\* two packs of two
C11_Witness ==
    /\ DistributeReturned
    /\ dist.num_packs = 2
    /\ dist.ordered_indices = <<3, 2, 1, 0>>
    /\ EqualPositiveWeights(dist)
    /\ dist.token_counts[0] > 1
    /\ dist.bins = <<(<<3, 2>>), (<<1, 0>>)>>

\* C12: pack_files on an empty file list answers with no packs and a token
\* total of 0 whatever the pack count, and distribute_files on the empty
\* sequence returns no bins.
C12_EmptyRequestEmptyResponse ==
    (phase = "returned" /\ files = <<>>)
        => /\ run.response = [packs |-> <<>>, total_tokens |-> 0]
           /\ distribute_files(<<>>, num_packs, <<>>) = <<>>

\* The empty request with the largest pack count has been answered
C12_Witness ==
    /\ phase = "returned"
    /\ files = <<>>
    /\ num_packs = MaxPacks
    /\ run.response.packs = <<>>

\* The pairs <<a, d>> with an edge from the dependency d to its dependent a
EdgePairs(edges) == {pair \in (DOMAIN edges) \X (DOMAIN edges) : pair[1] \in edges[pair[2]]}

Acyclic(pairs, n) == \A pair \in TransitiveClosure(pairs, n) : pair[1] # pair[2]

\* The loop was entered and the function has returned
LoopReturned == OrderReturned /\ Len(files) > 1

\* C16: when the dependency graph is acyclic the order returned by
\* compute_dependency_order is a topological order: for every edge from a
\* dependency to a dependent, the dependency comes strictly earlier.
C16_AcyclicGivesTopologicalOrder ==
    (LoopReturned /\ Acyclic(EdgePairs(kahn.graph.edges), Len(files)))
        => DependenciesFirst(kahn.order, EdgePairs(kahn.graph.edges))

\* A chain of three files given with the dependents first: the order
\* returned is the list reversed.
C16_Witness ==
    /\ LoopReturned
    /\ Len(files) = 3
    /\ EdgePairs(kahn.graph.edges) = {<<0, 1>>, <<1, 2>>}
    /\ kahn.order = <<2, 1, 0>>

AscendingPaths(seq, normalized_paths) ==
    \A i \in 1..Len(seq) : \A j \in (i + 1)..Len(seq) :
        ~StrLess(normalized_paths[seq[j]], normalized_paths[seq[i]])

EmittedAfterDependencies(emitted, edges) ==
    \A pair \in EdgePairs(edges) :
        pair[1] \in Range(emitted)
            => /\ pair[2] \in Range(emitted)
               /\ PlaceOf(emitted, pair[2]) < PlaceOf(emitted, pair[1])

\* order is emitted followed by the files left, each once, in ascending
\* path order
FallbackAppended(order, emitted, graph) ==
    /\ SubSeq(order, 1, Len(emitted)) = emitted
    /\ Len(order) = Cardinality(DOMAIN graph.indegree)
    /\ Range(SubSeq(order, Len(emitted) + 1, Len(order)))
           = (DOMAIN graph.indegree) \ Range(emitted)
    /\ AscendingPaths(SubSeq(order, Len(emitted) + 1, Len(order)), graph.normalized_paths)

\* C17: when the ready set runs empty with files still unprocessed, exactly
\* those files are appended after everything the loop emitted, in ascending
\* order of normalized path, and in the emitted part every file still
\* follows all of its dependencies.
C17_FallbackAppendsLeftoversByPath ==
    (LoopReturned /\ Len(kahn.st.order) < Len(files))
        => /\ FallbackAppended(kahn.order, kahn.st.order, kahn.graph)
           /\ EmittedAfterDependencies(kahn.st.order, kahn.graph.edges)

\* One file emitted by the loop, then a 2-cycle left to the fallback
C17_Witness ==
    /\ LoopReturned
    /\ Len(files) = 3
    /\ Len(kahn.st.order) = 1
    /\ Len(kahn.order) = 3
    /\ <<kahn.order[2], kahn.order[3]>> \in EdgePairs(kahn.graph.edges)
    /\ <<kahn.order[3], kahn.order[2]>> \in EdgePairs(kahn.graph.edges)

DistinctPaths(fs) ==
    \A i \in 1..Len(fs) : \A j \in 1..Len(fs) :
        i # j => normalize_path(fs[i].path) # normalize_path(fs[j].path)

\* The normalized paths of the files in the order given
PathsInOrder(order, fs) == [k \in 1..Len(order) |-> normalize_path(fs[order[k] + 1].path)]

\* The same files enumerated in ascending order of normalized path
ByPath(fs) ==
    [k \in 1..Len(fs) |-> fs[StableSort(IndexRange(Len(fs)), PathLess(NormalizedPaths(fs)))[k] + 1]]

CanonicalPaths(fs) == PathsInOrder(compute_dependency_order(fs), fs)

\* C18: for files of pairwise distinct normalized paths the sequence of
\* paths returned by compute_dependency_order does not depend on the order
\* in which the files are given: every enumeration yields the sequence
\* that the enumeration in ascending path order yields.
C18_OrderIndependentOfEnumeration ==
    (OrderReturned /\ DistinctPaths(files))
        => PathsInOrder(kahn.order, files) = CanonicalPaths(ByPath(files))

\* Three files of distinct paths, given neither in path order nor in the
\* order returned
C18_Witness ==
    /\ OrderReturned
    /\ Len(files) = 3
    /\ DistinctPaths(files)
    /\ files # ByPath(files)
    /\ kahn.order # <<0, 1, 2>>
    /\ PathsInOrder(kahn.order, files) # PathsInOrder(<<0, 1, 2>>, ByPath(files))

OnCycle(a, depends) == <<a, a>> \in depends

AwayFromCyclesFirst(order, pairs, depends) ==
    \A pair \in pairs :
        (~OnCycle(pair[1], depends) /\ ~OnCycle(pair[2], depends))
            => PlaceOf(order, pair[2]) < PlaceOf(order, pair[1])

AwayFromCyclesIn(order, pairs, n) ==
    AwayFromCyclesFirst(order, pairs, TransitiveClosure(pairs, n))

\* C19: even when some of the files form a dependency cycle, every edge
\* from a dependency B to a dependent A, neither of them on a cycle, is
\* respected by the order compute_dependency_order returns: B precedes A,
\* also when A and B are downstream of a cycle and left to the fallback.
C19_EdgesAwayFromCyclesRespected ==
    LoopReturned => AwayFromCyclesIn(kahn.order, EdgePairs(kahn.graph.edges), Len(files))

GraphBuilt == phase \in {"order_loop", "order_returned"} /\ Len(files) > 1

DistinctDependencies(i, edges) == {d \in DOMAIN edges : d # i /\ i \in edges[d]}

\* C20: in the graph build_dependency_graph returns no file is its own
\* dependent, and the indegree of every file is the number of distinct
\* other files that have it as a dependent, however many of its specifiers
\* resolve to the same file.
C20_IndegreeCountsDistinctDependencies ==
    GraphBuilt
        => /\ \A d \in DOMAIN kahn.graph.edges : d \notin kahn.graph.edges[d]
           /\ \A i \in DOMAIN kahn.graph.indegree :
                  kahn.graph.indegree[i]
                      = Cardinality(DistinctDependencies(i, kahn.graph.edges))

\* A self-import and a file with two specifiers for the same other file:
\* one edge, counted once
C20_Witness ==
    /\ GraphBuilt
    /\ files = <<File_a_imports_itself, File_c_imports_a_twice>>
    /\ Cardinality(extract_module_specifiers(files[2].content)) = 2
    /\ kahn.graph.edges[0] = {1}
    /\ kahn.graph.edges[1] = {}
    /\ kahn.graph.indegree[0] = 0
    /\ kahn.graph.indegree[1] = 1

ResolveReturned == phase = "resolve_returned"

IsAlias(specifier) == starts_with(specifier, <<"@", "/">>)

\* 'src/R' for the alias specifier '@/R'
UnderSrc(specifier) == <<"s", "r", "c", "/">> \o strip_prefix(specifier, <<"@", "/">>)

\* 'src/R.<ext>' is known for an extension of the closed list
KnownWithExtension(base, path_to_idx) ==
    \E i \in 1..Len(EXTENSIONS) : (base \o <<".">> \o EXTENSIONS[i]) \in DOMAIN path_to_idx

\* resolved is a known file whose path starts with base
ResolvedUnder(resolved, base, path_to_idx) ==
    /\ resolved # {}
    /\ \E path \in DOMAIN path_to_idx :
           path_to_idx[path] = unwrap(resolved) /\ starts_with(path, base)

SameFromEveryFile(call) ==
    \A other \in ResolveCurrentPaths :
        resolve_module_specifier(call.specifier, other, call.path_to_idx) = call.resolved

IsBare(specifier) ==
    /\ specifier # <<>>
    /\ specifier[1] \notin {"@", ".", "/"}

\* The paths looked up for a bare specifier: the specifier itself and, for
\* every extension of the list, `<specifier>.<ext>` and `<specifier>/index.<ext>`
CandidatePaths(specifier) ==
    {specifier}
        \cup {specifier \o <<".">> \o EXTENSIONS[i] : i \in 1..Len(EXTENSIONS)}
        \cup {specifier \o <<"/", "i", "n", "d", "e", "x", ".">> \o EXTENSIONS[i] :
                  i \in 1..Len(EXTENSIONS)}

BareUnknownIsNone(call) ==
    (IsBare(call.specifier) /\ CandidatePaths(call.specifier) \cap DOMAIN call.path_to_idx = {})
        => call.resolved = {}

\* C13 as stated: resolve_module_specifier maps '@/R' to 'src/R' whatever
\* the referencing file: if 'src/R.<ext>' is known for an extension of the
\* closed list, the result is a known file whose path starts with 'src/R',
\* never none; and a bare specifier none of whose candidate paths is known
\* resolves to none.
C13_AliasResolvesUnderSrc ==
    ResolveReturned
        => /\ IsAlias(unit.specifier)
                => /\ SameFromEveryFile(unit)
                   /\ KnownWithExtension(UnderSrc(unit.specifier), unit.path_to_idx)
                          => ResolvedUnder(unit.resolved, UnderSrc(unit.specifier),
                                           unit.path_to_idx)
           /\ BareUnknownIsNone(unit)

\* The path has no empty, '.' or '..' segment and no backslash, and its last
\* segment holds no dot
PlainWithoutDot(path) ==
    LET parts == split(path, {"/"})
    IN  /\ \A i \in 1..Len(parts) : parts[i] \notin {<<>>, <<".">>, <<".", ".">>}
        /\ "\\" \notin Range(path)
        /\ "." \notin Range(parts[Len(parts)])

\* C13, amended: the same, for a non-empty R of plain segments whose last
\* segment holds no dot (a candidate that carries an extension already is
\* looked up as it is and not probed with the extensions of the list).
C13_ExtensionlessAliasResolvesUnderSrc ==
    ResolveReturned
        => /\ IsAlias(unit.specifier)
                => /\ SameFromEveryFile(unit)
                   /\ (/\ PlainWithoutDot(UnderSrc(unit.specifier))
                       /\ KnownWithExtension(UnderSrc(unit.specifier), unit.path_to_idx))
                          => ResolvedUnder(unit.resolved, UnderSrc(unit.specifier),
                                           unit.path_to_idx)
           /\ BareUnknownIsNone(unit)

\* '@/x' from lib/deep/x.ts with src/x.md and @/x.ts both known: the file
\* under src/ is the one found
C13_Witness ==
    /\ ResolveReturned
    /\ unit.specifier = <<"@", "/", "x">>
    /\ unit.current_path = <<"l", "i", "b", "/", "d", "e", "e", "p", "/", "x", ".", "t", "s">>
    /\ <<"@", "/", "x", ".", "t", "s">> \in DOMAIN unit.path_to_idx
    /\ <<"s", "r", "c", "/", "x", ".", "m", "d">> \in DOMAIN unit.path_to_idx
    /\ unit.resolved = {unit.path_to_idx[<<"s", "r", "c", "/", "x", ".", "m", "d">>]}

ExtractReturned == phase = "extract_returned"

IsBlankOrComment(raw_line) ==
    \/ \A i \in 1..Len(raw_line) : raw_line[i] \in Whitespace
    \/ \E i \in 1..Len(raw_line) :
           /\ \A j \in 1..(i - 1) : raw_line[j] \in Whitespace
           /\ \/ raw_line[i] \in {"#", "*"}
              \/ (i < Len(raw_line) /\ raw_line[i] = "/" /\ raw_line[i + 1] = "/")

OnlyBlanksAndComments(content) ==
    \A raw_line \in Range(split(content, {"\n"})) : IsBlankOrComment(raw_line)

\* C14: extract_module_specifiers returns nothing for a text in which every
\* line is blank after trimming or begins, after trimming, with one of the
\* comment markers '//', '#' and '*', even when such lines hold import-like
\* text and quoted literals.
C14_CommentsAndBlanksYieldNothing ==
    (ExtractReturned /\ OnlyBlanksAndComments(unit.content)) => unit.specifiers = <<>>

\* Three comment lines with Windows line ends, one of them with a quoted
\* literal after require(
C14_Witness ==
    /\ ExtractReturned
    /\ OnlyBlanksAndComments(unit.content)
    /\ Len(split(unit.content, {"\n"})) > MaxLines
    /\ contains(unit.content, <<"\r", "\n", " ", "*", " ", "r", "e", "q", "u", "i", "r", "e", "(", "\"">>)
    /\ contains(unit.content, <<"/", "/", " ", "i", "m", "p", "o", "r", "t">>)
    /\ unit.specifiers = <<>>

\* Equal requests were given equal responses
SameRequestSameResponse ==
    \A first \in log : \A second \in log :
        first.request = second.request => first.response = second.response

\* C15: pack_files is a pure function of its request: two invocations with
\* equal requests return equal responses, whatever the iteration order of
\* the hash sets of each step, whatever other invocations run interleaved
\* with them or ran before them, and whatever the fs commands did to the
\* allow-list meanwhile; and no step of pack_files changes the allow-list.
C15_PureFunctionOfRequest ==
    /\ [](SameRequestSameResponse)
    /\ [][allow_list' # allow_list => (workers' = workers /\ log' = log)]_vars

\* A request was answered before the allow-list held any root, and the same
\* request is in flight on both workers at different steps, with a root
\* remembered since
C15_Witness ==
    /\ \E answered \in log :
           /\ Len(answered.request.files) = 3
           /\ Len(answered.response.packs) = 2
           /\ workers["w1"].state = "split"
           /\ workers["w2"].state = "grouped"
           /\ workers["w1"].request = answered.request
           /\ workers["w2"].request = answered.request
    /\ allow_list.project_roots # <<>>
    /\ Cardinality(log) = 3

\* The effective pack count of the call returned
PackCountOf(call) == EffectivePackCount(call.num_packs, Len(call.ordered_indices))

\* ceil(totalTokens * (b + 1) / P) for the bin b (0-based)
BoundaryTarget(call, b) ==
    LET total == SumTokens(call.ordered_indices, call.token_counts)
        P == PackCountOf(call)
    IN  IF (total * (b + 1)) % P = 0 THEN (total * (b + 1)) \div P
        ELSE (total * (b + 1)) \div P + 1

\* The running token sum after the file at position p (0-based)
RunningSum(call, p) == SumTokens(SubSeq(call.ordered_indices, 1, p + 1), call.token_counts)

\* The files in the bins before bin b (0-based)
FilesBefore(bs, b) == Len(Flatten(SubSeq(bs, 1, b)))

\* The bin (0-based) that holds position p (0-based) when the bins are
\* consecutive slices
BinOf(bs, p) == SetMin({b \in 0..(Len(bs) - 1) : p < FilesBefore(bs, b + 1)})

\* Position p is the last of its bin and another bin follows it
ClosesBin(bs, p) == p + 1 = FilesBefore(bs, BinOf(bs, p) + 1) /\ BinOf(bs, p) + 1 < Len(bs)

AdvanceRule(call) ==
    \A p \in 0..(Len(call.ordered_indices) - 1) :
        BinOf(call.bins, p) < PackCountOf(call) - 1
            => (ClosesBin(call.bins, p)
                    <=> /\ RunningSum(call, p) >= BoundaryTarget(call, BinOf(call.bins, p))
                        /\ Len(call.ordered_indices) - p - 1
                               >= PackCountOf(call) - BinOf(call.bins, p) - 1)

BoundariesReached(call) ==
    \A b \in 0..(Len(call.bins) - 2) :
        /\ RunningSum(call, FilesBefore(call.bins, b + 1) - 1) >= BoundaryTarget(call, b)
        /\ Len(call.bins[b + 1]) >= 2
               => RunningSum(call, FilesBefore(call.bins, b + 1) - 2) < BoundaryTarget(call, b)

\* C25: in distribute_files with an effective pack count P >= 2, after the
\* file at position p is placed into a bin b < P-1 the next file opens bin
\* b+1 exactly when the running token sum has reached ceil(total*(b+1)/P)
\* and at least as many files remain as packs; hence the files up to the end
\* of every bin that is followed by another reach that bin's boundary, and
\* without the last file of a bin of two or more files they do not.
C25_AdvanceAtBoundaryWithFilesLeft ==
    (/\ DistributeReturned
     /\ PackCountOf(dist) >= 2
     /\ Flatten(dist.bins) = dist.ordered_indices)
        => AdvanceRule(dist) /\ BoundariesReached(dist)

\* Four files in three packs where a boundary was reached by the
\* second file of a bin and the last bin was opened with one file left
C25_Witness ==
    /\ DistributeReturned
    /\ dist.num_packs = 3
    /\ Len(dist.ordered_indices) = 4
    /\ Len(dist.bins) = 3
    /\ Len(dist.bins[1]) = 2
    /\ Len(dist.bins[3]) = 1
    /\ dist.token_counts[dist.ordered_indices[1]] > 0
    /\ RunningSum(dist, 0) < BoundaryTarget(dist, 0)

\* C26: in distribute_files with effective pack count P = max(1, min(
\* requested, N)) every one of the P bins receives at least one file,
\* whatever the sequence and the token weights: no bin is empty before the
\* empty bins are dropped.
C26_NoBinStarved ==
    (/\ DistributeReturned
     /\ PackCountOf(dist) >= 2)
        => \A b \in 1..PackCountOf(dist) :
               FilledBins(dist.ordered_indices, PackCountOf(dist), dist.token_counts)[b] # <<>>

\* C27: for every sequence, pack count and token weighting, the bins
\* distribute_files returns are consecutive slices of its input in the
\* input's order: concatenated in order they give the input sequence.
C27_BinsConcatenateToInput ==
    DistributeReturned => Flatten(dist.bins) = dist.ordered_indices

\* Four files in descending index order and of different weights, in three
\* bins of unequal length
C27_Witness ==
    /\ DistributeReturned
    /\ dist.ordered_indices = <<3, 2, 1, 0>>
    /\ Len(dist.bins) = 3
    /\ Len(dist.bins[2]) = 2
    /\ dist.token_counts[3] > dist.token_counts[0]
    /\ dist.token_counts[2] < dist.token_counts[1]

DocsTokens == SumTokens(run.docs_order, TokenCounts(files))

TotalTokens == SumTokens(IndexRange(Len(files)), TokenCounts(files))

\* Documentation and code both present, more than one pack requested and a
\* positive token total.
SplitMode == Returned /\ MixedMode /\ TotalTokens > 0

\* round(R * d / t) for t > 0: the integer k with k - 1/2 <= R*d/t < k + 1/2
Rounded(d, t, R) ==
    CHOOSE k \in 0..R : 2 * t * k <= 2 * d * R + t /\ 2 * d * R + t < 2 * t * (k + 1)

RoundedDocPackCount == Min2(Max2(Rounded(DocsTokens, TotalTokens, num_packs), 1), num_packs - 1)

IsDocBin(bin) == Range(bin) \subseteq Range(run.docs_order)

IsCodeBin(bin) == Range(bin) \subseteq Range(run.code_order)

DocBins == {b \in 1..Len(run.bins) : Range(run.bins[b]) \cap Range(run.docs_order) # {}}

CodeBins == {b \in 1..Len(run.bins) : Range(run.bins[b]) \cap Range(run.code_order) # {}}

\* C23: with documentation and code both present, R > 1 packs requested and a
\* positive token total, the documentation bins come first and the code bins
\* after them, no bin holds both kinds, at least one bin is documentation
\* only and one code only, at most round(R * docTokens / totalTokens) clamped
\* to [1, R - 1] bins hold documentation and at most R minus that number
\* hold code.
C23_DocAndCodePacksApart ==
    SplitMode =>
        /\ \A b \in 1..Len(run.bins) : IsDocBin(run.bins[b]) \/ IsCodeBin(run.bins[b])
        /\ DocBins # {} /\ CodeBins # {} /\ DocBins \cap CodeBins = {}
        /\ \A d \in DocBins : \A c \in CodeBins : d < c
        /\ Cardinality(DocBins) <= RoundedDocPackCount
        /\ Cardinality(CodeBins) <= num_packs - RoundedDocPackCount
        /\ Flatten([b \in 1..Cardinality(DocBins) |-> run.bins[b]]) = run.docs_order
        /\ Flatten([b \in 1..Cardinality(CodeBins) |-> run.bins[Cardinality(DocBins) + b]])
               = run.code_order

\* Three packs asked for, two of them taken by documentation although there
\* is as much code: the share 3 * 5 / 10 is rounded up to 2.
C23_Witness ==
    /\ SplitMode
    /\ num_packs = 3
    /\ 2 * DocsTokens = TotalTokens
    /\ RoundedDocPackCount = 2
    /\ Len(run.bins) = 2

ResponsePaths(order) == [k \in 1..Len(order) |-> files[order[k] + 1].path]

\* C24: in every response the file lists of the packs, concatenated in pack
\* order, are all documentation files in priority order followed by all code
\* files in grouped order; no code file comes before a documentation file,
\* and the pack indices count up along that order.
C24_DocsThenCodeAcrossPacks ==
    Returned =>
        /\ PackedPaths = ResponsePaths(run.docs_order \o run.code_order)
        /\ Flatten(run.bins) = run.docs_order \o run.code_order
        /\ \A i, j \in 1..Len(Flatten(run.bins)) :
               (i < j /\ is_doc_file(files[Flatten(run.bins)[j] + 1].path))
                   => is_doc_file(files[Flatten(run.bins)[i] + 1].path)
        /\ \A k \in 1..Len(run.response.packs) : run.response.packs[k].index = k - 1

\* Both modes: a split response whose code follows its documentation, and a
\* request for one pack holding documentation and code together.
C24_Witness ==
    /\ Returned
    /\ run.docs_order # <<>> /\ Len(run.code_order) >= 2
    /\ \/ SplitMode /\ Len(run.response.packs) = 3 /\ ~is_doc_file(files[1].path)
       \/ num_packs <= 1 /\ ~is_doc_file(files[1].path)

SplitReturned == phase = "split_returned"

\* The last component of a path under the separator convention of the
\* platform, in lower case.
LastComponent(path) ==
    LET seps == {i \in 1..Len(path) :
                    path[i] = "/" \/ (platform = "windows" /\ path[i] = "\\")}
    IN  to_ascii_lowercase(SubSeq(path, IF seps = {} THEN 1 ELSE SetMax(seps) + 1, Len(path)))

\* The extension of a name: what follows its last dot, when the name has a
\* dot that is not its first character.
Suffix(name) ==
    LET dots == {i \in 2..Len(name) : name[i] = "."}
    IN  IF dots = {} THEN <<>> ELSE SubSeq(name, SetMax(dots) + 1, Len(name))

DocExtensions ==
    { <<"m", "d">>, <<"m", "d", "x">>, <<"t", "x", "t">>, <<"r", "s", "t">>,
      <<"a", "d", "o", "c">> }

HasDocExtension(path) == Suffix(LastComponent(path)) \in DocExtensions

LowerNormalized(path) == to_ascii_lowercase(normalize_path(path))

StartsWithAny(name, prefixes) ==
    \E p \in prefixes : Len(p) <= Len(name) /\ SubSeq(name, 1, Len(p)) = p

Bucket1Names ==
    { <<"o", "v", "e", "r", "v", "i", "e", "w">>,
      <<"a", "r", "c", "h", "i", "t", "e", "c", "t", "u", "r", "e">>,
      <<"d", "e", "s", "i", "g", "n">>, <<"s", "p", "e", "c">>,
      <<"c", "o", "n", "t", "r", "i", "b", "u", "t", "i", "n", "g">> }

InDocsFolder(normalized) ==
    \/ StartsWithAny(normalized, {<<"d", "o", "c", "s", "/">>})
    \/ \E i \in 1..Len(normalized) :
           StartsWithAny(SubSeq(normalized, i, Len(normalized)), {<<"/", "d", "o", "c", "s", "/">>})

BucketOf(path) ==
    IF StartsWithAny(LastComponent(path), {<<"r", "e", "a", "d", "m", "e">>}) THEN 0
    ELSE IF StartsWithAny(LastComponent(path), Bucket1Names) THEN 1
    ELSE IF InDocsFolder(LowerNormalized(path)) THEN 2
    ELSE 3

\* (bucket, path) of the first file is not above that of the second
KeyNotAbove(p, q) ==
    \/ BucketOf(p) < BucketOf(q)
    \/ /\ BucketOf(p) = BucketOf(q)
       /\ ~StrLess(LowerNormalized(q), LowerNormalized(p))

IsSubsequenceInOrder(part, whole) ==
    /\ \A x \in Range(part) : Count(part, x) = 1 /\ x \in Range(whole)
    /\ \A i, j \in 1..Len(part) : i < j => PlaceOf(whole, part[i]) < PlaceOf(whole, part[j])

C21_WitnessCode ==
    /\ SplitReturned
    /\ Len(unit.code) = 2 /\ Len(unit.docs) = 1
    /\ unit.code[1] > unit.code[2]

GroupReturned == phase = "group_returned"

\* The files of `among` joined to a file of `seen` by a chain of related
\* files, all of them in `among`
RECURSIVE Reach(_, _, _)
Reach(seen, among, related) ==
    IF \A x \in seen : (related[x] \cap among) \subseteq seen THEN seen
    ELSE Reach(seen \cup (among \cap UNION {related[x] : x \in seen}), among, related)

\* The component of every file of `among`
Components(among, related) == [x \in among |-> Reach({x}, among, related)]

Places(seq) == [x \in Range(seq) |-> PlaceOf(seq, x)]

\* The place in the input of the earliest member of every component
Earliest(component, before) ==
    [x \in DOMAIN component |-> SetMin({before[y] : y \in component[x]})]

GroupedAsClaimed(component, earliest, before, after) ==
    /\ Len(unit.grouped) = Len(unit.code_order)
    /\ \A x \in Range(unit.code_order) : Count(unit.grouped, x) = 1
    /\ \A x, y \in Range(unit.code_order) :
           before[x] < before[y] =>
               /\ component[x] = component[y] => after[x] < after[y]
               /\ y \in unit.related[x] => after[x] < after[y]
    /\ \A x, y \in Range(unit.code_order) :
           earliest[x] < earliest[y] => after[x] < after[y]

GroupedByComponent(component, before) ==
    /\ Range(unit.grouped) = Range(unit.code_order)
    /\ \A earliest \in {Earliest(component, before)} : \A after \in {Places(unit.grouped)} :
           GroupedAsClaimed(component, earliest, before, after)

\* C22: group_code_by_related_components returns a permutation of its input
\* in which the members of a component keep their order from the input and
\* the components stand in the order of their earliest members; a file
\* that preceded a related file still precedes it, and code files joined
\* only through a file outside the input belong to different components.
C22_GroupingKeepsOrder ==
    GroupReturned =>
        \A component \in {Components(Range(unit.code_order), unit.related)} :
            \A before \in {Places(unit.code_order)} : GroupedByComponent(component, before)

\* Two code files joined only through a documentation file, with a third
\* code file between them, stay where they were, while a component of two
\* would have been pulled together.
C22_Witness ==
    /\ GroupReturned
    /\ Len(unit.code_order) = 3
    /\ unit.code_order[3] \in Reach({unit.code_order[1]}, 0..(MaxGroupFiles - 1), unit.related)
    /\ unit.code_order[3] \notin Reach({unit.code_order[1]}, Range(unit.code_order), unit.related)
    /\ unit.grouped = unit.code_order
    /\ unit.code_order[1] > unit.code_order[2]

\* A component whose later member is pulled forward over an unrelated file
C22_WitnessMoved ==
    /\ GroupReturned
    /\ Len(unit.code_order) = 4
    /\ unit.grouped # unit.code_order
    /\ unit.code_order[3] \in unit.related[unit.code_order[1]]

\* The last segment of a normalized path has a dot that is not its first
\* character.
CarriesExtension(base) ==
    LET slashes == {i \in 1..Len(base) : base[i] = "/"}
        first == IF slashes = {} THEN 1 ELSE SetMax(slashes) + 1
    IN  \E i \in (first + 1)..Len(base) : base[i] = "."

\* <base>.ts, <base>/index.ts, <base>.tsx, <base>/index.tsx, ...
ExtensionProbes(base) ==
    [k \in 1..(2 * Len(EXTENSIONS)) |->
        IF k % 2 = 1 THEN base \o <<".">> \o EXTENSIONS[(k + 1) \div 2]
        ELSE base \o <<"/", "i", "n", "d", "e", "x", ".">> \o EXTENSIONS[k \div 2]]

ProbedAsStated(base) == IF CarriesExtension(base) THEN <<base>> ELSE ExtensionProbes(base)

ProbedBaseFirst(base) ==
    IF CarriesExtension(base) THEN <<base>> ELSE <<base>> \o ExtensionProbes(base)

\* The index of the first path of probes that is known
FirstPresent(probes, path_to_idx) ==
    IF \A k \in 1..Len(probes) : probes[k] \notin DOMAIN path_to_idx THEN {}
    ELSE {path_to_idx[probes[SetMin({k \in 1..Len(probes) : probes[k] \in DOMAIN path_to_idx})]]}

\* The candidate bases of the call, each replaced by the paths probed for it
ProbesOfCall(call, Probed(_)) ==
    Flatten([i \in 1..Len(BaseCandidates(call.specifier, call.current_path)) |->
                Probed(BaseCandidates(call.specifier, call.current_path)[i])])

\* C28 as stated: for a candidate base without an explicit extension only
\* <base>.<ext> and <base>/index.<ext> are probed, for the extensions of the
\* closed list in their order; a candidate with an extension is looked up as
\* it is; the result is the first probed path that is known, none when no
\* probed path is known.
C28_ProbesExtensionsOnly ==
    ResolveReturned =>
        unit.resolved = FirstPresent(ProbesOfCall(unit, ProbedAsStated), unit.path_to_idx)

\* C28, amended: the base path itself is looked up first, then <base>.<ext>
\* and <base>/index.<ext> extension by extension.
C28_ProbesBaseThenExtensions ==
    ResolveReturned =>
        unit.resolved = FirstPresent(ProbesOfCall(unit, ProbedBaseFirst), unit.path_to_idx)

\* '@/lib/utils' with src/lib/utils/index.ts and src/lib/utils.js known and
\* src/lib/utils.ts not: the index file of the earlier extension is found.
C28_Witness ==
    /\ ResolveReturned
    /\ unit.specifier = <<"@", "/", "l", "i", "b", "/", "u", "t", "i", "l", "s">>
    /\ <<"s", "r", "c", "/", "l", "i", "b", "/", "u", "t", "i", "l", "s", ".", "t", "s">>
           \notin DOMAIN unit.path_to_idx
    /\ <<"s", "r", "c", "/", "l", "i", "b", "/", "u", "t", "i", "l", "s", ".", "j", "s">>
           \in DOMAIN unit.path_to_idx
    /\ <<"s", "r", "c", "/", "l", "i", "b", "/", "u", "t", "i", "l", "s", "/", "i", "n", "d", "e", "x", ".", "t", "s">>
           \in DOMAIN unit.path_to_idx
    /\ unit.resolved = {unit.path_to_idx[<<"s", "r", "c", "/", "l", "i", "b", "/", "u", "t", "i", "l", "s", "/", "i", "n", "d", "e", "x", ".", "t", "s">>]}

\* './x' from src/App.tsx with the extensionless src/x and src/x.md both
\* known: src/x itself is the file found.
C28_BaseItselfFound ==
    /\ ResolveReturned
    /\ unit.specifier = <<".", "/", "x">>
    /\ unit.current_path = <<"s", "r", "c", "/", "A", "p", "p", ".", "t", "s", "x">>
    /\ <<"s", "r", "c", "/", "x", ".", "m", "d">> \in DOMAIN unit.path_to_idx
    /\ <<"s", "r", "c", "/", "x">> \in DOMAIN unit.path_to_idx
    /\ unit.resolved = {unit.path_to_idx[<<"s", "r", "c", "/", "x">>]}

\* The closed quoted literals of a line, read from left to right: `open`
\* is the quote character of the literal under way ("" outside a literal),
\* `start` its first position; a backslash inside a literal takes the next
\* character with it.
RECURSIVE ClosedLiterals(_, _, _, _)
ClosedLiterals(line, i, open, start) ==
    IF i > Len(line) THEN {}
    ELSE IF open = "" THEN
        (IF line[i] \in {"'", "\""} THEN ClosedLiterals(line, i + 1, line[i], i + 1)
         ELSE ClosedLiterals(line, i + 1, "", 0))
    ELSE IF line[i] = "\\" THEN ClosedLiterals(line, i + 2, open, start)
    ELSE IF line[i] = open
         THEN {SubSeq(line, start, i - 1)} \cup ClosedLiterals(line, i + 1, "", 0)
    ELSE ClosedLiterals(line, i + 1, open, start)

NonEmptyLiterals(line) == ClosedLiterals(line, 1, "", 0) \ {<<>>}

\* The lines of the text that are neither blank nor comments, trimmed
CodeLines(content) ==
    {trim(raw_line) : raw_line \in {l \in Range(split(content, {"\n"})) : ~IsBlankOrComment(l)}}

HoldsAny(line, markers) == \E marker \in markers : contains(line, marker)

StartsWithAnyOf(line, markers) == \E marker \in markers : starts_with(line, marker)

MarkersAtStart ==
    { <<"i", "m", "p", "o", "r", "t", " ">>, <<"e", "x", "p", "o", "r", "t", " ">>,
      <<"u", "s", "e", " ">> }

MarkersAnywhere ==
    { <<" ", "f", "r", "o", "m", " ">>, <<"r", "e", "q", "u", "i", "r", "e", "(">>,
      <<"i", "m", "p", "o", "r", "t", "(">> }

\* C29 as stated: from every line that is neither blank nor a comment and
\* holds one of the markers `import `, `export `, ` from `, `require(`,
\* `import(`, `use ` anywhere, every non-empty closed quoted literal is
\* returned.
C29_LiteralsOfLinesHoldingAMarker ==
    ExtractReturned =>
        \A line \in CodeLines(unit.content) :
            HoldsAny(line, MarkersAtStart \cup MarkersAnywhere)
                => NonEmptyLiterals(line) \subseteq Range(unit.specifiers)

InspectedLine(line) ==
    StartsWithAnyOf(line, MarkersAtStart) \/ HoldsAny(line, MarkersAnywhere)

\* C29, amended: a line that is neither blank nor a comment is inspected
\* when, trimmed, it starts with `import `, `export ` or `use ` or holds
\* ` from `, `require(` or `import(` anywhere; the quoted literals returned
\* are exactly the non-empty closed literals of the inspected lines (an
\* escaped quote does not close a literal, a literal open at the end of the
\* line is dropped); what else is returned comes from the recognisers of
\* Python imports and Rust mod lines.
C29_LiteralsOfInspectedLines ==
    ExtractReturned =>
        Range(unit.specifiers) =
            UNION {(IF InspectedLine(line) THEN NonEmptyLiterals(line) ELSE {})
                       \cup PyFromSpecifiers(line) \cup PyImportSpecifiers(line)
                       \cup RustModSpecifiers(line) :
                   line \in CodeLines(unit.content)}

\* A line holding `use ` inside a word, which is not inspected, and a line
\* with an escaped quote and an unterminated literal
C29_Witness ==
    /\ ExtractReturned
    /\ <<"r", "e", "u", "s", "e", " ", "\"", ".", "/", "f", "\"">> \in CodeLines(unit.content)
    /\ <<"i", "m", "p", "o", "r", "t", " ", "\"", "h", "\\", "\"", "i", "\"", " ", "'", "j">> \in CodeLines(unit.content)
    /\ Range(unit.specifiers) = {<<"h", "\\", "\"", "i">>}

Registered(state) == Range(state.project_roots) \cup Range(state.export_roots)

UnderRegisteredRoot(target) == \E root \in Registered(allow_list) : starts_with(target, root)

IsFileAccess(outcome) == outcome.command \in {"read_file_content", "write_file_content"}

\* A read or write that succeeded had a path without `..` and touched a
\* file under a registered root; one that failed touched no file.
AccessWithinRoots ==
    \A outcome \in log :
        IsFileAccess(outcome) =>
            IF outcome.ok
            THEN /\ ".." \notin Range(outcome.path)
                 /\ outcome.target # {}
                 /\ UnderRegisteredRoot(unwrap(outcome.target))
            ELSE outcome.target = {}

\* The same for reads alone
ReadsWithinRoots ==
    \A outcome \in log :
        (outcome.command = "read_file_content" /\ outcome.ok) =>
            /\ ".." \notin Range(outcome.path)
            /\ outcome.target # {}
            /\ UnderRegisteredRoot(unwrap(outcome.target))

IsPrefixOf(shorter, longer) ==
    Len(shorter) <= Len(longer) /\ SubSeq(longer, 1, Len(shorter)) = shorter

WithoutDuplicates(roots) == \A i, j \in 1..Len(roots) : roots[i] = roots[j] => i = j

\* The lists of roots only grow at their ends, and change only in a step in
\* which walk_directory or authorize_export_directory returns Ok.
RootsGrowOnSuccess ==
    /\ IsPrefixOf(allow_list.project_roots, allow_list'.project_roots)
    /\ IsPrefixOf(allow_list.export_roots, allow_list'.export_roots)
    /\ allow_list' # allow_list =>
           \E outcome \in log' :
               /\ outcome.ok
               /\ outcome.command \in {"walk_directory", "authorize_export_directory"}
               /\ \E w \in Workers : workers[w] = Idle /\ workers'[w] = Idle

RootsWithoutDuplicates ==
    WithoutDuplicates(allow_list.project_roots) /\ WithoutDuplicates(allow_list.export_roots)

\* The part of C30 about the registered roots: they only grow, neither list
\* holds a root twice, and no step other than a successful walk_directory
\* or authorize_export_directory changes them.
RootsOnlyGrow == [][RootsGrowOnSuccess]_vars /\ []RootsWithoutDuplicates

\* C30: in every interleaving of walk_directory, authorize_export_directory,
\* read_file_content and write_file_content a read or write succeeds only
\* if its path has no `..` component and the file it touches lies under a
\* root registered by a successful walk_directory or
\* authorize_export_directory; otherwise it fails without reading or
\* writing; the registered roots only grow, hold no duplicates and are left
\* unchanged by every failed call.
C30_AccessOnlyUnderRegisteredRoots ==
    []AccessWithinRoots /\ [][RootsGrowOnSuccess]_vars /\ []RootsWithoutDuplicates

\* write_file_content("/proj/link") returned Ok with /proj the only root
\* registered, and the file written is /out/new.txt.
WriteEscapedThroughLink ==
    /\ \E outcome \in log :
           /\ outcome.command = "write_file_content" /\ outcome.ok
           /\ outcome.path = <<"proj", "link">>
           /\ outcome.target = {<<"out", "new.txt">>}
    /\ Registered(allow_list) = {<<"proj">>}
    /\ EntryAt(unit.tree, <<"out", "new.txt">>).kind = "file"

\* A read through /proj/peek allowed once /out is registered, and refused
\* before
ReadThroughLinkAllowed ==
    /\ \E outcome \in log :
           /\ outcome.command = "read_file_content" /\ outcome.ok
           /\ outcome.path = <<"proj", "peek">>
           /\ outcome.target = {<<"out", "secret.txt">>}
    /\ allow_list = [project_roots |-> <<<<"proj">>, <<"out">>>>, export_roots |-> <<<<"out">>>>]

====
